---- MODULE Spec2Model ----
(***************************************************************************)
(* A state-machine model of the IDE front-end modules of this repository:  *)
(* the quick-open handler registry and service, the debug panel, the       *)
(* markers tree, the Node.js debug adapter contribution, the preferences   *)
(* menu factory and the breakpoints widget.                                *)
(*                                                                         *)
(* JavaScript strings are modelled as sequences of one-character strings,  *)
(* so that startsWith, substr and concatenation are computed, not assumed. *)
(***************************************************************************)
EXTENDS Integers, Sequences, FiniteSets, TLC

VARIABLES
    \* QuickOpenHandlerRegistry
    handlers,        \* Map<string, QuickOpenHandler>, in insertion order
    defaultHandler,  \* the default handler, or Undefined
    toDispose,       \* the disposables pushed to the registry's collection
    regCall,         \* the most recent registry call: what it returned and logged
    \* QuickOpenService
    currentPrefix,   \* QuickOpenService.currentPrefix (NoPrefix until first set)
    shown,           \* the prefix option of the most recent show()/open()
    typed,           \* the text of the model.onType call made by the last step
    typeError,       \* TRUE once an onType call has thrown
    pending,         \* getModel().then(...) callbacks not yet run
    produced,        \* the items the queried handler model produced last
    accepted,        \* the items the caller's acceptor received last
    \* DebugSessionManager, as the DebugWidget sees it
    dwSessions,      \* the sessions the manager holds (findAll)
    dwUsed,          \* the session ids the manager has given out
    dwActive,        \* the argument of the last setActiveDebugSession
    \* DebugWidget
    dwInited,        \* init() has run
    dwPanelAttached, \* the panel's isAttached
    dwTabs,          \* tabBar.titles: one record per DebugTargetWidget
    dwCurrent,       \* tabBar.currentTitle, by session id
    dwPrevious,      \* the tab bar's previous title, by session id
    dwThrew,         \* the last handler of the widget ended with an exception
    \* MarkerManager and MarkerTree
    mtStore,         \* markerManager.findMarkers({ uri }), per URI
    mtRoot,          \* root.children: the ids of the info nodes under the root
    mtInfo,          \* the MarkerInfoNode objects, by URI
    mtMarker,        \* the markers that the MarkerNode objects carry, by node id
    mtIndex,         \* the tree's node index: what getNode(id) finds
    mtInflight,      \* refreshMarkerInfo calls waiting in createMarkerInfo
    mtFired,         \* the last step fired the tree's change event
    mtLast,          \* the refreshMarkerInfo call that the last step completed
    \* NodeJsDebugAdapterContribution
    njConfig,        \* the DebugConfiguration object the caller holds
    njResult,        \* what the last resolveDebugConfiguration threw or returned
    \* PreferencesMenuFactory
    pmId,            \* the id argument of the last createPreferenceContextMenu
    pmSaved,         \* its savedPreference argument
    pmProperty,      \* its property argument
    pmMenu,          \* the menu it returned: the command registry and the items
    pmSelected,      \* the position of the item selected last, or NoSelection
    pmExecuted,      \* the arguments of the last call of the execute callback
    \* DebugBreakpointsWidget
    bwStore,         \* the breakpoints the BreakpointsManager holds
    bwSession,       \* the widget's debugSession, by session id, or NoSession
    bwInited,        \* init() has run: the widget came from the container
    bwBreakpoints,   \* the widget's breakpoints field
    bwAwaiting,      \* refreshBreakpoints calls that wait for the manager
    bwUpdateRequested, \* update() was called and render() has not yet run
    bwDom,           \* the item elements under the widget's node
    bwEvents,        \* what the widget's emitters fired in the last step
    bwLast,          \* the operation of the widget that the last step completed
    \* BreakpointDecorator
    bdStorage,       \* the breakpoints the BreakpointStorage holds
    bdOpen,          \* editorManager.all: the open editors
    bdDecorations,   \* the decorations the BreakpointDecorator has set, per editor
    bdLast,          \* the applyDecorations call that the last step made
    \* ActiveLineDecorator
    alActive,        \* debugSessionManager.getActiveDebugSession(), or NoSession
    alStopped,       \* session.state.stoppedThreadIds
    alTop,           \* the top stack frame of each thread, when it is stopped
    alOpen,          \* editorManager.all: the open editors
    alDecorations,   \* the decorations the ActiveLineDecorator has set, per editor
    alPending,       \* the stacks requests and editor lookups not yet resolved
    alLast,          \* what the last step of the decorator did
    \* DebugTargetWidget
    twAttached,      \* the DebugTargetWidget is attached
    twChildAttached, \* which of its child widgets are attached
    twUpdates,       \* the child widgets with a posted update request
    twActivations,   \* the child widgets with a posted activate request
    twThrew,         \* the last handler of the target widget ended with an exception
    twLast,          \* the message the target widget handled in the last step
    \* The list of providers (earlier QuickOpenService, HelpQuickOpenHandler)
    pvItems,         \* the list of providers that the acceptor received last
    pvRegistry,      \* getHandlers() when that list was made
    pvRun,           \* the last run of an item of the list: mode, result, state before
    pvLast,          \* what the last step of the providers view did
    \* DebugWidget: the tab close protocol
    dcCloseRequested, \* the sessions whose tab got a close request
    dcDisconnected,  \* the sessions on which the widget called disconnect()
    \* DebugBreakpointsWidget: its listeners
    blAttached,      \* the breakpoints widget is attached
    blListeners,     \* the widget's listeners on the manager and the session, and toDisposeOnDetach
    blLast,          \* the last event: its kind, whether the widget was attached, the refreshBreakpoints calls it made
    \* ActiveLineDecorator: the most recent applyDecorations call
    apApplied        \* what the most recent applyDecorations call saw

qoRegistryVars == <<handlers, defaultHandler, toDispose, regCall>>
qoServiceVars == <<currentPrefix, shown, typed, typeError, pending, produced, accepted>>

dwVars == <<dwSessions, dwUsed, dwActive, dwInited, dwPanelAttached, dwTabs,
            dwCurrent, dwPrevious, dwThrew>>

mtVars == <<mtStore, mtRoot, mtInfo, mtMarker, mtIndex, mtInflight, mtFired, mtLast>>

njVars == <<njConfig, njResult>>

pmVars == <<pmId, pmSaved, pmProperty, pmMenu, pmSelected, pmExecuted>>

bwVars == <<bwStore, bwSession, bwInited, bwBreakpoints, bwAwaiting, bwUpdateRequested, bwDom, bwEvents, bwLast>>

bdVars == <<bdStorage, bdOpen, bdDecorations, bdLast>>

alVars == <<alActive, alStopped, alTop, alOpen, alDecorations, alPending, alLast>>

twVars == <<twAttached, twChildAttached, twUpdates, twActivations, twThrew, twLast>>

pvVars == <<pvItems, pvRegistry, pvRun, pvLast>>

dcVars == <<dcCloseRequested, dcDisconnected>>

blVars == <<blAttached, blListeners, blLast>>

apVars == <<apApplied>>

vars == <<qoRegistryVars, qoServiceVars, dwVars, mtVars, njVars, pmVars, bwVars, bdVars, alVars, twVars, pvVars, dcVars, blVars, apVars>>

\* What the actions of one component leave alone: the variables of the
\* other components.
qoOthers == <<dwVars, mtVars, njVars, pmVars, bwVars, bdVars, alVars, twVars, pvVars, dcVars, blVars, apVars>>

dwOthers == <<qoRegistryVars, qoServiceVars, mtVars, njVars, pmVars, bwVars, bdVars, alVars, twVars, pvVars, dcVars, blVars, apVars>>

mtOthers == <<qoRegistryVars, qoServiceVars, dwVars, njVars, pmVars, bwVars, bdVars, alVars, twVars, pvVars, dcVars, blVars, apVars>>

njOthers == <<qoRegistryVars, qoServiceVars, dwVars, mtVars, pmVars, bwVars, bdVars, alVars, twVars, pvVars, dcVars, blVars, apVars>>

pmOthers == <<qoRegistryVars, qoServiceVars, dwVars, mtVars, njVars, bwVars, bdVars, alVars, twVars, pvVars, dcVars, blVars, apVars>>

bwOthers == <<qoRegistryVars, qoServiceVars, dwVars, mtVars, njVars, pmVars, bdVars, alVars, twVars, pvVars, dcVars, blVars, apVars>>

bdOthers == <<qoRegistryVars, qoServiceVars, dwVars, mtVars, njVars, pmVars, bwVars, alVars, twVars, pvVars, dcVars, blVars, apVars>>

alOthers == <<qoRegistryVars, qoServiceVars, dwVars, mtVars, njVars, pmVars, bwVars, bdVars, twVars, pvVars, dcVars, blVars, apVars>>

twOthers == <<qoRegistryVars, qoServiceVars, dwVars, mtVars, njVars, pmVars, bwVars, bdVars, alVars, pvVars, dcVars, blVars, apVars>>

pvOthers == <<dwVars, mtVars, njVars, pmVars, bwVars, bdVars, alVars, twVars, dcVars, blVars, apVars>>

dcOthers == <<qoRegistryVars, qoServiceVars, dwVars, mtVars, njVars, pmVars, bwVars, bdVars, alVars, twVars, pvVars, blVars, apVars>>

blOthers == <<qoRegistryVars, qoServiceVars, dwVars, mtVars, njVars, pmVars, bwVars, bdVars, alVars, twVars, pvVars, dcVars, apVars>>

blbwOthers == <<qoRegistryVars, qoServiceVars, dwVars, mtVars, njVars, pmVars, bdVars, alVars, twVars, pvVars, dcVars, apVars>>

alapOthers == <<qoRegistryVars, qoServiceVars, dwVars, mtVars, njVars, pmVars, bwVars, bdVars, twVars, pvVars, dcVars, blVars>>

Undefined == "undefined"

(***************************************************************************)
(* Strings                                                                 *)
(***************************************************************************)
\* String.prototype.startsWith
StartsWith(text, p) ==
    /\ Len(p) <= Len(text)
    /\ SubSeq(text, 1, Len(p)) = p

\* A substr that forgets to drop the prefix.
SubstrKeepsAll(text, start) == text

\* String.prototype.substr(start), for 0 <= start
Substr(text, start) ==
    IF start >= Len(text) THEN <<>> ELSE SubSeq(text, start + 1, Len(text))

(***************************************************************************)
(* Quick open: handlers                                                    *)
(***************************************************************************)
\* The quick open handlers that contributions register; "cmd" and "cmdAlt"
\* are two handler objects that claim the same prefix.
Handlers == {"cmd", "cmdAlt", "deep", "all"}

\* QuickOpenHandler.prefix
prefixOf(h) ==
    CASE h = "cmd" -> <<">">>
      [] h = "cmdAlt" -> <<">">>
      [] h = "deep" -> <<">", ">">>
      [] h = "all" -> <<>>
      [] h = "help" -> <<"?">>

\* The handlers that are offered as the default handler.
DefaultCandidates == {"cmdAlt", "all"}

\* The texts typed into the quick open widget.
Texts ==
    { <<>>, <<"a">>, <<">">>, <<">", "a">>, <<">", ">">>, <<">", ">", "a">>,
      <<"?">>, <<"?", "a">> }

\* The value of a string field that was never assigned.
NoPrefix == <<"(undefined)">>

\* The item lists a handler model may hand to its acceptor.
ItemLists == { <<>>, <<"item1">>, <<"item1", "item2">> }

NoItems == <<"(none)">>

\* Disposable.NULL
NullDisposable == [kind |-> "null", h |-> Undefined]

NoCall == [op |-> "none", h |-> Undefined, ret |-> NullDisposable, warned |-> FALSE]

\* Map.prototype.has
Has(map, key) == \E i \in 1..Len(map) : prefixOf(map[i]) = key

\* Map.prototype.get
Get(map, key) ==
    IF Has(map, key)
    THEN map[CHOOSE i \in 1..Len(map) : prefixOf(map[i]) = key]
    ELSE Undefined

\* Map.prototype.delete
Delete(map, key) == SelectSeq(map, LAMBDA h : prefixOf(h) # key)

\* Map.prototype.set: a new key goes to the end of the insertion order, an
\* existing key keeps its place and gets the new value.
Set(map, h) ==
    IF Has(map, prefixOf(h))
    THEN [i \in 1..Len(map) |-> IF prefixOf(map[i]) = prefixOf(h) THEN h ELSE map[i]]
    ELSE Append(map, h)

\* QuickOpenHandlerRegistry.getHandlers
getHandlers == handlers

\* QuickOpenHandlerRegistry.getDefaultHandler
getDefaultHandler == defaultHandler

RECURSIVE ScanLongest(_, _, _)
\* A scan that prefers the longest matching prefix to the first registered.
ScanLongest(map, text, i) ==
    IF i > Len(map) THEN Undefined
    ELSE LET rest == ScanLongest(map, text, i + 1)
         IN IF ~StartsWith(text, prefixOf(map[i])) THEN rest
            ELSE IF rest # Undefined /\ Len(prefixOf(rest)) > Len(prefixOf(map[i]))
            THEN rest
            ELSE map[i]

RECURSIVE ScanHandlers(_, _, _)
\* The loop of getHandlerForText over handlers.values(), from position i.
ScanHandlers(map, text, i) ==
    IF i > Len(map) THEN Undefined
    ELSE IF StartsWith(text, prefixOf(map[i])) THEN map[i]
    ELSE ScanHandlers(map, text, i + 1)

\* QuickOpenHandlerRegistry.getHandlerForText (getHandlerByText earlier)
getHandlerForText(text) == ScanHandlers(handlers, text, 1)

\* The disposable that registerHandler / registerDefaultHandler returns for h:
\* its dispose() is handlers.delete(handler.prefix) in both cases.
HandlerDisposable(h) == [kind |-> "handler", h |-> h]

DefaultDisposable(h) == [kind |-> "default", h |-> h]

\* The arrow function `() => this.handlers.delete(handler.prefix)`; the null
\* disposable's dispose() is the empty function.
DisposeEffect(map, d) ==
    IF d.kind = "null" THEN map ELSE Delete(map, prefixOf(d.h))

RECURSIVE DisposeAll(_, _)
\* DisposableCollection.dispose: every pushed disposable is disposed.
DisposeAll(map, ds) ==
    IF ds = {} THEN map
    ELSE LET d == CHOOSE x \in ds : TRUE
         IN DisposeAll(DisposeEffect(map, d), ds \ {d})

\* A registerHandler without the has() check: the later handler replaces
\* the earlier one.
RegisterHandlerOverwrites(h) ==
    /\ handlers' = Set(handlers, h)
    /\ toDispose' = toDispose \cup {HandlerDisposable(h)}
    /\ regCall' = [op |-> "registerHandler", h |-> h,
                   ret |-> HandlerDisposable(h), warned |-> FALSE]
    /\ UNCHANGED <<defaultHandler, qoServiceVars, qoOthers>>

\* QuickOpenHandlerRegistry.registerHandler
RegisterHandler(h) ==
    /\ IF Has(handlers, prefixOf(h))
       THEN /\ regCall' = [op |-> "registerHandler", h |-> h,
                           ret |-> NullDisposable, warned |-> TRUE]
            /\ UNCHANGED <<handlers, toDispose>>
       ELSE /\ handlers' = Set(handlers, h)
            /\ toDispose' = toDispose \cup {HandlerDisposable(h)}
            /\ regCall' = [op |-> "registerHandler", h |-> h,
                           ret |-> HandlerDisposable(h), warned |-> FALSE]
    /\ UNCHANGED <<defaultHandler, qoServiceVars, qoOthers>>

\* QuickOpenHandlerRegistry.registerDefaultHandler
RegisterDefaultHandler(h) ==
    /\ defaultHandler' = h
    /\ toDispose' = toDispose \cup {DefaultDisposable(h)}
    /\ regCall' = [op |-> "registerDefaultHandler", h |-> h,
                   ret |-> DefaultDisposable(h), warned |-> FALSE]
    /\ UNCHANGED <<handlers, qoServiceVars, qoOthers>>

\* dispose() of a disposable that a registration returned (d), called by
\* whoever holds it.
DisposeReturned(d) ==
    /\ handlers' = DisposeEffect(handlers, d)
    /\ regCall' = [op |-> "dispose", h |-> d.h, ret |-> d, warned |-> FALSE]
    /\ UNCHANGED <<defaultHandler, toDispose, qoServiceVars, qoOthers>>

\* QuickOpenHandlerRegistry.dispose
RegistryDispose ==
    /\ handlers' = DisposeAll(handlers, toDispose)
    /\ toDispose' = {}
    /\ regCall' = [op |-> "registryDispose", h |-> Undefined,
                   ret |-> NullDisposable, warned |-> FALSE]
    /\ UNCHANGED <<defaultHandler, qoServiceVars, qoOthers>>

(***************************************************************************)
(* Quick open: service                                                     *)
(***************************************************************************)
NoText == <<"(none)">>

\* The number of getModel() promises that may be unresolved at once.
MaxPending == 1

\* `handlerItems => acceptor(handlerItems)`: what the caller's acceptor gets
\* when the handler model produces items.
Forward(items) == items

\* `handler.getModel().then(mod => mod.onType(searchValue, ...))`
QueryModel(h, searchValue) == [h |-> h, search |-> searchValue]

\* A fallback that strips the first character as if a prefix had matched.
DefaultQueryStripped(lookFor) == QueryModel(getDefaultHandler, Substr(lookFor, 1))

\* `defHandler.getModel().then(mod => mod.onType(lookFor, ...))`
DefaultQuery(lookFor) == QueryModel(getDefaultHandler, lookFor)

\* QuickOpenService.show
Show(prefix) == shown' = prefix

\* QuickOpenService.model.onType (the service with a current prefix)
OnType(lookFor) ==
    LET handler == getHandlerForText(lookFor)
        handlerPrefix == IF handler # Undefined THEN prefixOf(handler) ELSE <<>>
    IN  /\ typed' = lookFor
        /\ IF handlerPrefix # currentPrefix
           THEN /\ currentPrefix' = handlerPrefix
                /\ Show(lookFor)
                /\ UNCHANGED <<pending, typeError>>
           ELSE IF handler # Undefined
           THEN /\ Len(pending) < MaxPending
                /\ pending' = Append(pending,
                       QueryModel(handler, Substr(lookFor, Len(prefixOf(handler)))))
                /\ UNCHANGED <<currentPrefix, shown, typeError>>
           ELSE IF getDefaultHandler = Undefined
           THEN \* defHandler.getModel() on undefined: a TypeError
                /\ typeError' = TRUE
                /\ UNCHANGED <<currentPrefix, shown, pending>>
           ELSE /\ Len(pending) < MaxPending
                /\ pending' = Append(pending, DefaultQuery(lookFor))
                /\ UNCHANGED <<currentPrefix, shown, typeError>>
        /\ UNCHANGED <<qoRegistryVars, produced, accepted, qoOthers>>

\* A getModel() promise resolves: the handler's model gets onType with the
\* captured search value, produces items, and the callback hands them on.
ModelResolved(i, items) ==
    /\ i \in 1..Len(pending)
    /\ pending' = [j \in 1..(Len(pending) - 1) |->
                      IF j < i THEN pending[j] ELSE pending[j + 1]]
    /\ produced' = items
    /\ accepted' = Forward(items)
    /\ typed' = NoText
    /\ UNCHANGED <<qoRegistryVars, currentPrefix, shown, typeError, qoOthers>>

(***************************************************************************)
(* Debug panel: DebugWidget and its tab bar                                *)
(***************************************************************************)
\* The debug sessions the session manager may create.
Sessions == {"s1", "s2", "s3"}

\* No title (tabBar.currentTitle === null).
NoTab == "(no tab)"

\* The DebugTargetWidget that debugTargetWidgetFactory(debugSession) makes.
NewTargetWidget(sid) == [sessionId |-> sid, attached |-> FALSE, hidden |-> FALSE]

\* The tab bar, its tabs' widgets and the manager's active session, as the
\* handlers below transform them.
TabState == [tabs |-> dwTabs, cur |-> dwCurrent, prev |-> dwPrevious,
             active |-> dwActive, threw |-> FALSE]

\* The positions of the titles whose owner has the session id:
\* titles.filter(title => title.owner.sessionId === sid).
TitlesOf(tabs, sid) == {i \in 1..Len(tabs) : tabs[i].sessionId = sid}

SetHidden(tabs, sid, flag) ==
    [i \in 1..Len(tabs) |->
        IF tabs[i].sessionId = sid THEN [tabs[i] EXCEPT !.hidden = flag] ELSE tabs[i]]

SetAttached(tabs, sid, flag) ==
    [i \in 1..Len(tabs) |->
        IF tabs[i].sessionId = sid THEN [tabs[i] EXCEPT !.attached = flag] ELSE tabs[i]]

RemoveAt(seq, i) ==
    [j \in 1..(Len(seq) - 1) |-> IF j < i THEN seq[j] ELSE seq[j + 1]]

\* A handler that hides and shows but never tells the session manager.
onCurrentTabChangedKeepsActive(st, previousTitle, currentTitle) ==
    LET hid == IF previousTitle # NoTab
               THEN SetHidden(st.tabs, previousTitle, TRUE)
               ELSE st.tabs
    IN IF currentTitle # NoTab
       THEN [st EXCEPT !.tabs = SetHidden(hid, currentTitle, FALSE)]
       ELSE [st EXCEPT !.tabs = hid]

\* DebugWidget.onCurrentTabChanged
onCurrentTabChanged(st, previousTitle, currentTitle) ==
    LET hid == IF previousTitle # NoTab
               THEN SetHidden(st.tabs, previousTitle, TRUE)
               ELSE st.tabs
    IN IF currentTitle # NoTab
       THEN [st EXCEPT !.tabs = SetHidden(hid, currentTitle, FALSE),
                       !.active = currentTitle]
       ELSE [st EXCEPT !.tabs = hid]

\* `tabBar.currentTitle = title`: the tab bar's currentIndex setter, which
\* emits currentChanged when the index changes.
SetCurrentTitle(st, sid) ==
    IF st.cur = sid THEN st
    ELSE onCurrentTabChanged([st EXCEPT !.cur = sid, !.prev = st.cur], st.cur, sid)

\* tabBar.removeTab(title) with removeBehavior 'select-previous-tab'.
RemoveTab(st, sid) ==
    LET i == CHOOSE k \in TitlesOf(st.tabs, sid) : TRUE
        rest == RemoveAt(st.tabs, i)
        prev == IF st.prev = sid THEN NoTab ELSE st.prev
        removed == [st EXCEPT !.tabs = rest, !.prev = prev]
    IN IF st.cur # sid THEN removed
       ELSE IF Len(rest) = 0
       THEN onCurrentTabChanged([removed EXCEPT !.cur = NoTab], sid, NoTab)
       ELSE LET next == IF prev # NoTab THEN prev
                        ELSE rest[IF i < Len(rest) THEN i ELSE Len(rest)].sessionId
            IN onCurrentTabChanged([removed EXCEPT !.cur = next, !.prev = NoTab],
                                   sid, next)

\* DebugWidget.onDebugSessionCreated
onDebugSessionCreated(st, sid, isAttached) ==
    LET widget == [NewTargetWidget(sid) EXCEPT !.attached = isAttached]
        added == [st EXCEPT !.tabs = Append(st.tabs, widget)]
    IN SetCurrentTitle(added, sid)

\* DebugWidget.onDebugSessionDestroyed. Widget.detach throws 'Widget is not
\* attached.' for a widget that is not attached, which ends the handler
\* before removeTab.
onDebugSessionDestroyed(st, sid) ==
    IF TitlesOf(st.tabs, sid) = {} THEN st
    ELSE LET i == CHOOSE k \in TitlesOf(st.tabs, sid) : TRUE
         IN IF ~st.tabs[i].attached
            THEN [st EXCEPT !.threw = TRUE]
            ELSE RemoveTab([st EXCEPT !.tabs = SetAttached(st.tabs, sid, FALSE)], sid)

RECURSIVE CreateAll(_, _, _)
\* The loop of init over debugSessionManager.findAll().
CreateAll(st, order, isAttached) ==
    IF order = <<>> THEN st
    ELSE CreateAll(onDebugSessionCreated(st, Head(order), isAttached),
                   Tail(order), isAttached)

\* The orders in which findAll() may list the sessions.
Orders(set) ==
    {o \in [1..Cardinality(set) -> set] : \A i, j \in DOMAIN o : o[i] = o[j] => i = j}

DwApply(st) ==
    /\ dwTabs' = st.tabs
    /\ dwCurrent' = st.cur
    /\ dwPrevious' = st.prev
    /\ dwActive' = st.active
    /\ dwThrew' = st.threw

\* DebugWidget.init
DwInit ==
    /\ ~dwInited
    /\ dwInited' = TRUE
    /\ \E order \in Orders(dwSessions) :
           DwApply(CreateAll(TabState, order, dwPanelAttached))
    /\ UNCHANGED <<dwSessions, dwUsed, dwPanelAttached, dwOthers>>

\* The session manager creates a session and fires onDidCreateDebugSession.
SessionCreated(sid) ==
    /\ sid \notin dwUsed
    /\ dwSessions' = dwSessions \cup {sid}
    /\ dwUsed' = dwUsed \cup {sid}
    /\ IF dwInited
       THEN DwApply(onDebugSessionCreated(TabState, sid, dwPanelAttached))
       ELSE UNCHANGED <<dwTabs, dwCurrent, dwPrevious, dwActive, dwThrew>>
    /\ UNCHANGED <<dwInited, dwPanelAttached, dwOthers>>

\* The session manager destroys a session and fires onDidDestroyDebugSession.
SessionDestroyed(sid) ==
    /\ sid \in dwSessions
    /\ dwSessions' = dwSessions \ {sid}
    /\ IF dwInited
       THEN DwApply(onDebugSessionDestroyed(TabState, sid))
       ELSE UNCHANGED <<dwTabs, dwCurrent, dwPrevious, dwActive, dwThrew>>
    /\ UNCHANGED <<dwUsed, dwInited, dwPanelAttached, dwOthers>>

\* The first position whose widget has the given attached flag, or one past
\* the end: where a forEach of Widget.attach / Widget.detach throws.
FirstWith(tabs, flag) ==
    LET at == {i \in 1..Len(tabs) : tabs[i].attached = flag}
    IN IF at = {} THEN Len(tabs) + 1 ELSE CHOOSE i \in at : \A j \in at : i <= j

\* The panel is attached: DebugWidget.onAfterAttach attaches the tab bar and
\* every tab's widget.
PanelAttached ==
    /\ dwInited
    /\ ~dwPanelAttached
    /\ dwPanelAttached' = TRUE
    /\ dwTabs' = [i \in 1..Len(dwTabs) |->
                     IF i < FirstWith(dwTabs, TRUE)
                     THEN [dwTabs[i] EXCEPT !.attached = TRUE] ELSE dwTabs[i]]
    /\ dwThrew' = (FirstWith(dwTabs, TRUE) <= Len(dwTabs))
    /\ UNCHANGED <<dwSessions, dwUsed, dwActive, dwInited, dwCurrent, dwPrevious,
                   dwOthers>>

\* The panel is detached: DebugWidget.onBeforeDetach detaches every tab's
\* widget and the tab bar.
PanelDetached ==
    /\ dwInited
    /\ dwPanelAttached
    /\ dwPanelAttached' = FALSE
    /\ dwTabs' = [i \in 1..Len(dwTabs) |->
                     IF i < FirstWith(dwTabs, FALSE)
                     THEN [dwTabs[i] EXCEPT !.attached = FALSE] ELSE dwTabs[i]]
    /\ dwThrew' = (FirstWith(dwTabs, FALSE) <= Len(dwTabs))
    /\ UNCHANGED <<dwSessions, dwUsed, dwActive, dwInited, dwCurrent, dwPrevious,
                   dwOthers>>

\* The user selects a tab: the tab bar sets its current index.
TabSelected(sid) ==
    /\ TitlesOf(dwTabs, sid) # {}
    /\ DwApply(SetCurrentTitle(TabState, sid))
    /\ UNCHANGED <<dwSessions, dwUsed, dwInited, dwPanelAttached,
                   dwOthers>>

\* The panel right after construction; the manager may already hold sessions.
DwInitial ==
    /\ dwSessions \in SUBSET Sessions
    /\ dwUsed = dwSessions
    /\ dwActive = NoTab
    /\ dwInited = FALSE
    /\ dwPanelAttached = FALSE
    /\ dwTabs = <<>>
    /\ dwCurrent = NoTab
    /\ dwPrevious = NoTab
    /\ dwThrew = FALSE

\* The panel while no DebugWidget is in use.
DwIdle ==
    /\ dwSessions = {}
    /\ dwUsed = {}
    /\ dwActive = NoTab
    /\ dwInited = FALSE
    /\ dwPanelAttached = FALSE
    /\ dwTabs = <<>>
    /\ dwCurrent = NoTab
    /\ dwPrevious = NoTab
    /\ dwThrew = FALSE

(***************************************************************************)
(* Markers tree: MarkerTree over the tree's node index                     *)
(***************************************************************************)
\* The URIs that carry markers, as uri.toString() gives them. The second
\* is the first followed by "_0", as for two files `a` and `a_0`.
Uris == { <<"a">>, <<"a", "_", "0">> }

\* The markers of the marker manager.
Markers == {"m1", "m2"}

\* The number of markers one URI may carry.
MaxMarkers == 2

\* The number of refreshMarkerInfo calls that may wait in createMarkerInfo.
MaxRefreshes == 1

\* What findMarkers may return: lists of distinct markers.
MarkerLists ==
    {ms \in UNION {[1..n -> Markers] : n \in 0..MaxMarkers} :
        \A i, j \in DOMAIN ms : ms[i] = ms[j] => i = j}

Digits == <<"0", "1", "2", "3", "4", "5", "6", "7", "8", "9">>

\* The decimal form of an index below ten, as string concatenation gives it.
Digit(i) == Digits[i + 1]

\* `parent.id + '_' + index`
MarkerNodeId(parentId, index) == parentId \o <<"_", Digit(index)>>

\* The ids under which the tree may index a node.
NodeIds == Uris \cup {MarkerNodeId(u, i) : u \in Uris, i \in 0..MaxMarkers}

NoNode == [kind |-> "none"]

NoMarker == "(no marker)"

NoRefresh == [uri |-> <<>>, alone |-> FALSE, existed |-> FALSE]

\* The tree, as the operations below transform it.
TreeState == [root |-> mtRoot, info |-> mtInfo, marker |-> mtMarker,
              index |-> mtIndex, fired |-> FALSE]

\* TreeImpl.getNode: the kind of node that the index holds for the id.
getNode(t, id) == t.index[id]

\* MarkerInfoNode.is
MarkerInfoNodeIs(kind) == kind = "info"

\* The ids of the children of the info node of u.
ChildIds(t, u) ==
    IF t.info[u] = NoNode THEN {}
    ELSE {t.info[u].children[i] : i \in 1..Len(t.info[u].children)}

\* TreeImpl.removeChild(parent, child), for the root and an info node.
removeChild(t, u) == [t EXCEPT !.root = SelectSeq(t.root, LAMBDA x : x # u)]

\* TreeImpl.removeNode: the node and its children leave the index.
removeNode(t, u) ==
    [t EXCEPT !.index = [id \in NodeIds |->
        IF id = u \/ id \in ChildIds(t, u) THEN "none" ELSE t.index[id]]]

\* TreeImpl.fireChanged
fireChanged(t) == [t EXCEPT !.fired = TRUE]

\* TreeImpl.addChild(parent, child), for the root and an info node: a child
\* with the same id is replaced, a new one is appended.
addChild(t, u) ==
    IF \E i \in 1..Len(t.root) : t.root[i] = u THEN t
    ELSE [t EXCEPT !.root = Append(t.root, u)]

\* TreeImpl.setChildren: the node gets the children, the index drops the old
\* ones and holds the node and the new ones, and a change is fired.
setChildren(t, u, children) ==
    LET dropped == removeNode(t, u)
        ids == {children[i] : i \in 1..Len(children)}
    IN fireChanged(
        [dropped EXCEPT !.info[u].children = children,
                        !.index = [id \in NodeIds |->
                            IF id = u THEN "info"
                            ELSE IF id \in ids THEN "marker"
                            ELSE dropped.index[id]]])

\* MarkerTree.createMarkerInfo: the node it resolves to.
createMarkerInfo == [numberOfMarkers |-> 0, children |-> <<>>]

\* MarkerTree.createMarkerNode: the indexed MarkerNode with the id, or else a
\* new node with the id, carries the marker; an indexed node of another kind
\* with the id is left as it is.
createMarkerNode(t, marker, index, parentId) ==
    [t EXCEPT !.marker[MarkerNodeId(parentId, index)] = marker]

RECURSIVE MapMarkers(_, _, _, _)
\* The map of getMarkerNodes over the markers, from position i.
MapMarkers(t, markers, i, parentId) ==
    IF i > Len(markers) THEN t
    ELSE MapMarkers(createMarkerNode(t, markers[i], i - 1, parentId),
                    markers, i + 1, parentId)

\* MarkerTree.getMarkerNodes: the ids of the children, in marker order.
getMarkerNodes(parentId, markers) ==
    [i \in 1..Len(markers) |-> MarkerNodeId(parentId, i - 1)]

\* A refresh that keeps the children it finds and only counts the markers.
CompleteRefreshKeepsChildren(t, u, markers) ==
    [addChild(t, u) EXCEPT !.info[u].numberOfMarkers = Len(markers)]

\* MarkerTree.refreshMarkerInfo from addChild on, for the node of u.
CompleteRefresh(t, u, markers) ==
    LET added == addChild(t, u)
        made == MapMarkers(added, markers, 1, u)
        counted == [made EXCEPT !.info[u].numberOfMarkers = Len(markers)]
    IN setChildren(counted, u, getMarkerNodes(u, markers))

\* MarkerTree.refreshMarkerInfo when the URI has no markers.
RemoveInfo(t, u) ==
    IF MarkerInfoNodeIs(getNode(t, u))
    THEN LET gone == removeNode(removeChild(t, u), u)
         IN fireChanged([gone EXCEPT !.info[u] = NoNode])
    ELSE t

MtApply(t) ==
    /\ mtRoot' = t.root
    /\ mtInfo' = t.info
    /\ mtMarker' = t.marker
    /\ mtIndex' = t.index
    /\ mtFired' = t.fired

\* Every waiting refresh has now overlapped with another one.
Overlapped(inflight) ==
    [i \in 1..Len(inflight) |-> [inflight[i] EXCEPT !.alone = FALSE]]

\* The marker manager sets the markers of a URI and fires onDidChangeMarkers;
\* the listener runs refreshMarkerInfo up to its first await, or to its end.
MarkersChanged(u, ms) ==
    LET existed == MarkerInfoNodeIs(getNode(TreeState, u))
        alone == mtInflight = <<>>
    IN  /\ mtStore' = [mtStore EXCEPT ![u] = ms]
        /\ IF Len(ms) <= 0
           THEN /\ MtApply(RemoveInfo(TreeState, u))
                /\ mtInflight' = Overlapped(mtInflight)
                /\ mtLast' = [uri |-> u, alone |-> alone, existed |-> existed]
           ELSE IF existed
           THEN /\ MtApply(CompleteRefresh(TreeState, u, ms))
                /\ mtInflight' = Overlapped(mtInflight)
                /\ mtLast' = [uri |-> u, alone |-> alone, existed |-> existed]
           ELSE /\ Len(mtInflight) < MaxRefreshes
                /\ mtInflight' = Append(Overlapped(mtInflight),
                                        [uri |-> u, markers |-> ms, alone |-> alone])
                /\ mtLast' = NoRefresh
                /\ mtFired' = FALSE
                /\ UNCHANGED <<mtRoot, mtInfo, mtMarker, mtIndex>>
        /\ UNCHANGED mtOthers

\* createMarkerInfo resolves and the waiting refreshMarkerInfo runs to its
\* end with the markers it read before the await.
RefreshResumed(i) ==
    /\ i \in 1..Len(mtInflight)
    /\ LET e == mtInflight[i]
           fresh == [TreeState EXCEPT !.info[e.uri] = createMarkerInfo]
       IN /\ MtApply(CompleteRefresh(fresh, e.uri, e.markers))
          /\ mtLast' = [uri |-> e.uri, alone |-> e.alone, existed |-> FALSE]
    /\ mtInflight' = RemoveAt(mtInflight, i)
    /\ UNCHANGED <<mtStore, mtOthers>>

\* The tree after construction: an invisible root without children.
MtInit ==
    /\ mtStore = [u \in Uris |-> <<>>]
    /\ mtRoot = <<>>
    /\ mtInfo = [u \in Uris |-> NoNode]
    /\ mtMarker = [id \in NodeIds |-> NoMarker]
    /\ mtIndex = [id \in NodeIds |-> "none"]
    /\ mtInflight = <<>>
    /\ mtFired = FALSE
    /\ mtLast = NoRefresh

(***************************************************************************)
(* JavaScript values                                                       *)
(***************************************************************************)
\* A primitive value with its type, so that equality is `===`.
JsUndefined == [type |-> "undefined", value |-> ""]

JsNull == [type |-> "null", value |-> ""]

JsString(s) == [type |-> "string", value |-> s]

JsBoolean(b) == [type |-> "boolean", value |-> IF b THEN "true" ELSE "false"]

\* A number, by its decimal form.
JsNumber(n) == [type |-> "number", value |-> n]

\* `!v`
Falsy(v) ==
    \/ v.type \in {"undefined", "null"}
    \/ v.type = "string" /\ v.value = ""
    \/ v.type = "boolean" /\ v.value = "false"
    \/ v.type = "number" /\ v.value \in {"0", "NaN"}

(***************************************************************************)
(* Node.js debug adapter: NodeJsDebugAdapterContribution                   *)
(***************************************************************************)
\* `{ filePatterns: ['[.]js$', '[.]ts$'] }`
NodeBreakpoints == [filePatterns |-> <<"[.]js$", "[.]ts$">>]

\* The values a configuration may hold for request, processId, breakpoints
\* and name when it reaches the contribution.
Requests == {JsUndefined, JsNull, JsString(""), JsString("attach"), JsString("launch")}

ProcessIds == {JsUndefined, JsNull, JsString(""), JsString("4711")}

BreakpointSettings == {JsUndefined, [filePatterns |-> <<"[.]py$">>], NodeBreakpoints}

Names == {JsString("Attach by PID"), JsString("Launch")}

DebugConfigurations ==
    [type : {JsString("node")}, request : Requests, processId : ProcessIds,
     breakpoints : BreakpointSettings, name : Names]

NoError == "(no error)"

NoConfig == [type |-> JsUndefined]

NotResolved == [thrown |-> NoError, returned |-> NoConfig]

\* An attach validation that only looks for a missing processId.
validateAttachConfigMissingOnly(config) ==
    IF config.processId = JsUndefined THEN "PID is not provided." ELSE NoError

\* NodeJsDebugAdapterContribution.validateAttachConfig: the message of the
\* error it throws, or NoError.
validateAttachConfig(config) ==
    IF Falsy(config.processId) THEN "PID is not provided." ELSE NoError

\* NodeJsDebugAdapterContribution.resolveDebugConfiguration: the object it was
\* given as it leaves it, and what it threw or returned.
resolveDebugConfiguration(config) ==
    LET assigned == [config EXCEPT !.breakpoints = NodeBreakpoints]
        thrown == IF Falsy(assigned.request)
                  THEN "Debug request type is not provided."
                  ELSE IF assigned.request = JsString("attach")
                  THEN validateAttachConfig(assigned)
                  ELSE NoError
    IN [config |-> assigned,
        thrown |-> thrown,
        returned |-> IF thrown = NoError THEN assigned ELSE NoConfig]

\* A caller resolves the configuration it holds.
Resolve ==
    LET r == resolveDebugConfiguration(njConfig)
    IN /\ njConfig' = r.config
       /\ njResult' = [thrown |-> r.thrown, returned |-> r.returned]
       /\ UNCHANGED njOthers

\* The user edits the request or the processId of the configuration.
EditConfiguration(request, processId) ==
    /\ njConfig' = [njConfig EXCEPT !.request = request, !.processId = processId]
    /\ njResult' = NotResolved
    /\ UNCHANGED njOthers

NjInitial ==
    /\ njConfig \in DebugConfigurations
    /\ njResult = NotResolved

NjIdle ==
    /\ njConfig = [type |-> JsString("node"), request |-> JsString("attach"),
                   processId |-> JsString(""), breakpoints |-> NodeBreakpoints,
                   name |-> JsString("Attach by PID")]
    /\ njResult = NotResolved

(***************************************************************************)
(* Preferences: PreferencesMenuFactory                                     *)
(***************************************************************************)
JsArray(elements) == [type |-> "array", elements |-> elements]

\* An object with its properties.
JsObject(fields) == [type |-> "object", fields |-> fields]

PreferenceIds == {"editor.wrap", "editor.mode"}

\* The enum of a PreferenceProperty: absent, or an array of strings.
Enums ==
    {JsUndefined, JsArray(<<>>), JsArray(<<"on">>), JsArray(<<"on", "off">>),
     JsArray(<<"off", "on">>), JsArray(<<"on", "on">>),
     JsArray(<<"on", "off", "on">>)}

PropertyTypes == {JsUndefined, JsString("boolean"), JsString("string")}

Defaults ==
    {JsUndefined, JsString("on"), JsString(""), JsBoolean(TRUE), JsBoolean(FALSE)}

\* The `property` argument: undefined, or a PreferenceProperty.
Properties ==
    {JsUndefined} \cup
    {JsObject(p) : p \in [enum : Enums, type : PropertyTypes, default : Defaults]}

\* The `savedPreference` argument.
SavedPreferences == {JsUndefined, JsString("on"), JsString("true")}

\* The saved values of every type: none, strings, booleans, a number.
SavedValues ==
    {JsUndefined, JsString("on"), JsString("off"), JsString(""), JsString("true"),
     JsString("false"), JsBoolean(TRUE), JsBoolean(FALSE), JsNumber("0")}

\* The properties with a check mark to place: an enum of distinct values, or
\* a boolean without an enum.
MarkedProperties ==
    {JsObject(p) : p \in
        ([enum : {JsArray(<<"on", "off">>), JsArray(<<"off", "on">>), JsArray(<<"", "on">>)},
          type : {JsUndefined, JsString("string")},
          default : {JsUndefined, JsString("on"), JsString("off")}]
         \cup
         [enum : {JsUndefined},
          type : {JsString("boolean")},
          default : {JsUndefined, JsBoolean(TRUE), JsBoolean(FALSE)}])}

\* `id + '-' + value`, as the parts that were concatenated.
CommandId(id, value) == <<id, "-", value>>

NoExecution == [property |-> "(none)", value |-> JsUndefined]

NoSelection == 0

\* CommandRegistry.hasCommand
hasCommand(commands, commandId) ==
    \E i \in 1..Len(commands) : commands[i].id = commandId

\* The command with the id, as CommandRegistry.execute finds it.
CommandOf(commands, commandId) ==
    commands[CHOOSE i \in 1..Len(commands) : commands[i].id = commandId]

\* `condition ? 'fa fa-check' : ''`
IconClass(condition) == IF condition THEN "fa fa-check" ELSE ""

\* The CommandRegistry and the Menu that the factory starts from.
EmptyMenu == [commands |-> <<>>, items |-> <<>>]

\* commands.addCommand(commandId, ...) followed by menu.addItem for it.
AddCommandItem(m, command) ==
    [commands |-> Append(m.commands, command), items |-> Append(m.items, command.id)]

RECURSIVE EnumItems(_, _, _, _, _, _)
\* enumConst.forEach from position k: a value whose command id is not yet
\* registered gets a command and a menu item.
EnumItems(m, id, savedPreference, property, enumConst, k) ==
    IF k > Len(enumConst) THEN m
    ELSE LET enumValue == enumConst[k]
             commandId == CommandId(id, enumValue)
             added ==
                IF ~hasCommand(m.commands, commandId)
                THEN AddCommandItem(m,
                        [id |-> commandId,
                         label |-> enumValue,
                         iconClass |-> IconClass(
                            \/ savedPreference = JsString(enumValue)
                            \/ /\ Falsy(savedPreference)
                               /\ property.fields.default = JsString(enumValue)),
                         arg |-> JsString(enumValue)])
                ELSE m
         IN EnumItems(added, id, savedPreference, property, enumConst, k + 1)

\* The branch for type 'boolean': the items 'true' and 'false'.
BooleanItems(m, id, savedPreference, property) ==
    LET withTrue == AddCommandItem(m,
            [id |-> CommandId(id, "true"),
             label |-> "true",
             iconClass |-> IconClass(
                \/ savedPreference = JsString("true")
                \/ Falsy(savedPreference) /\ property.fields.default = JsBoolean(TRUE)),
             arg |-> JsString("true")])
    IN AddCommandItem(withTrue,
            [id |-> CommandId(id, "false"),
             label |-> "false",
             iconClass |-> IconClass(
                \/ savedPreference = JsString("false")
                \/ Falsy(savedPreference) /\ property.fields.default = JsBoolean(FALSE)),
             arg |-> JsString("false")])

\* The last branch: the item 'Add Value'.
StringItem(m, id, property) ==
    AddCommandItem(m,
        [id |-> CommandId(id, "stringValue"),
         label |-> "Add Value",
         iconClass |-> "",
         arg |-> IF ~Falsy(property.fields.default) THEN property.fields.default ELSE JsString("")])

\* A factory that looks at the type before it looks at the enum.
createPreferenceContextMenuTypeFirst(id, savedPreference, property) ==
    IF Falsy(property) THEN EmptyMenu
    ELSE IF ~Falsy(property.fields.type) /\ property.fields.type = JsString("boolean")
    THEN BooleanItems(EmptyMenu, id, savedPreference, property)
    ELSE IF ~Falsy(property.fields.enum)
    THEN EnumItems(EmptyMenu, id, savedPreference, property, property.fields.enum.elements, 1)
    ELSE StringItem(EmptyMenu, id, property)

\* PreferencesMenuFactory.createPreferenceContextMenu
createPreferenceContextMenu(id, savedPreference, property) ==
    IF Falsy(property) THEN EmptyMenu
    ELSE IF ~Falsy(property.fields.enum)
    THEN EnumItems(EmptyMenu, id, savedPreference, property, property.fields.enum.elements, 1)
    ELSE IF ~Falsy(property.fields.type) /\ property.fields.type = JsString("boolean")
    THEN BooleanItems(EmptyMenu, id, savedPreference, property)
    ELSE StringItem(EmptyMenu, id, property)

\* A context menu is built for a preference.
CreateMenu(id, savedPreference, property) ==
    /\ pmId' = id
    /\ pmSaved' = savedPreference
    /\ pmProperty' = property
    /\ pmMenu' = createPreferenceContextMenu(id, savedPreference, property)
    /\ pmSelected' = NoSelection
    /\ pmExecuted' = NoExecution
    /\ UNCHANGED pmOthers

\* The user selects the i-th item: its command runs `execute(id, value)`.
SelectItem(i) ==
    /\ i \in 1..Len(pmMenu.items)
    /\ pmSelected' = i
    /\ pmExecuted' = [property |-> pmId,
                      value |-> CommandOf(pmMenu.commands, pmMenu.items[i]).arg]
    /\ UNCHANGED <<pmId, pmSaved, pmProperty, pmMenu, pmOthers>>

PmIdle ==
    /\ pmId = "editor.wrap"
    /\ pmSaved = JsUndefined
    /\ pmProperty = JsUndefined
    /\ pmMenu = EmptyMenu
    /\ pmSelected = NoSelection
    /\ pmExecuted = NoExecution

(***************************************************************************)
(* Breakpoints view: DebugBreakpointsWidget and BreakpointsDialog          *)
(***************************************************************************)
\* The session ids that breakpoints and widgets refer to.
BwSessions == {"s1", "s2"}

NoSession == "(no session)"

\* The AggregatedBreakpoint objects, in the order the manager keeps them.
BreakpointOrder ==
    << [id |-> "b1", sessionId |-> "s1"],
       [id |-> "b2", sessionId |-> "s2"],
       [id |-> "b3", sessionId |-> "s1"] >>

Breakpoints == {BreakpointOrder[i] : i \in 1..Len(BreakpointOrder)}

\* The number of refreshBreakpoints calls that may wait for the manager.
MaxAwaiting == 1

\* `Styles.BREAKPOINT_ITEM`
BREAKPOINT_ITEM == "theia-debug-breakpoint-item"

\* `SELECTED_CLASS`
SELECTED_CLASS == "theia-mod-selected"

\* The className values that the widget gives an item.
PlainClass == <<BREAKPOINT_ITEM>>

SelectedClass == <<BREAKPOINT_ITEM, SELECTED_CLASS>>

\* The element carries the class.
HasClass(element, class) ==
    \E k \in 1..Len(element.className) : element.className[k] = class

InStore(store, breakpoint) == breakpoint \in store

\* BreakpointsManager.getAll: every breakpoint the manager holds.
getAll(store) == SelectSeq(BreakpointOrder, LAMBDA b : InStore(store, b))

\* BreakpointsManager.get: the breakpoints of the session.
get(store, sessionId) == SelectSeq(getAll(store), LAMBDA b : b.sessionId = sessionId)

\* The string form by which Array.prototype.sort() compares an element.
StringForm(breakpoint) == "[object Object]"

\* The order of the string forms; an object has one string form only.
NotAfter(s, t) == s = t

RECURSIVE InsertSorted(_, _, _)
\* The sorted list with x put behind the elements that are not after it.
InsertSorted(sorted, x, k) ==
    IF k > Len(sorted) THEN Append(sorted, x)
    ELSE IF NotAfter(StringForm(sorted[k]), StringForm(x))
    THEN InsertSorted(sorted, x, k + 1)
    ELSE SubSeq(sorted, 1, k - 1) \o <<x>> \o SubSeq(sorted, k, Len(sorted))

RECURSIVE SortFrom(_, _, _)
SortFrom(list, sorted, k) ==
    IF k > Len(list) THEN sorted
    ELSE SortFrom(list, InsertSorted(sorted, list[k], 1), k + 1)

\* `this.breakpoints.sort()`
sort(list) == SortFrom(list, <<>>, 1)

\* A refresh that asks for every breakpoint, whatever the widget's session.
ManagerAnswerAll(store, debugSession) == getAll(store)

\* refreshBreakpoints up to its await: what the manager is asked for.
ManagerAnswer(store, debugSession) ==
    IF debugSession # NoSession THEN get(store, debugSession) ELSE getAll(store)

NoOperation == [kind |-> "none"]

\* refreshBreakpoints is called: the manager's answer is awaited.
StartRefresh(store) ==
    /\ Len(bwAwaiting) < MaxAwaiting
    /\ bwAwaiting' = Append(Overlapped(bwAwaiting),
                            [answer |-> ManagerAnswer(store, bwSession),
                             store |-> store,
                             alone |-> bwAwaiting = <<>>])

\* The manager adds or removes a breakpoint and fires onDidChangeBreakpoints;
\* the listener that init() registered calls refreshBreakpoints.
BreakpointsChanged(breakpoint) ==
    LET store == IF breakpoint \in bwStore THEN bwStore \ {breakpoint}
                 ELSE bwStore \cup {breakpoint}
    IN /\ bwStore' = store
       /\ IF bwInited THEN StartRefresh(store) ELSE UNCHANGED bwAwaiting
       /\ bwEvents' = <<>>
       /\ bwLast' = NoOperation
       /\ UNCHANGED <<bwSession, bwInited, bwBreakpoints, bwUpdateRequested, bwDom, bwOthers>>

\* The number of refreshBreakpoints calls that may wait at once when the
\* manager fires again before it has answered.
MaxOverlapping == 2

\* The manager fires onDidChangeBreakpoints while earlier refreshBreakpoints
\* calls may still wait: the listener starts one more, which waits with them.
BreakpointsChangedAgain(breakpoint) ==
    LET store == IF breakpoint \in bwStore THEN bwStore \ {breakpoint}
                 ELSE bwStore \cup {breakpoint}
    IN /\ bwInited
       /\ Len(bwAwaiting) < MaxOverlapping
       /\ bwStore' = store
       /\ bwAwaiting' = Append(Overlapped(bwAwaiting),
                               [answer |-> ManagerAnswer(store, bwSession),
                                store |-> store,
                                alone |-> bwAwaiting = <<>>])
       /\ bwEvents' = <<>>
       /\ bwLast' = NoOperation
       /\ UNCHANGED <<bwSession, bwInited, bwBreakpoints, bwUpdateRequested, bwDom, bwOthers>>

\* The widget's session emits 'configurationDone'.
ConfigurationDone ==
    /\ bwInited
    /\ bwSession # NoSession
    /\ StartRefresh(bwStore)
    /\ bwEvents' = <<>>
    /\ bwLast' = NoOperation
    /\ UNCHANGED <<bwStore, bwSession, bwInited, bwBreakpoints, bwUpdateRequested, bwDom, bwOthers>>

\* BreakpointsDialog.open, for the widget that the dialog built.
DialogOpened ==
    /\ ~bwInited
    /\ StartRefresh(bwStore)
    /\ bwEvents' = <<>>
    /\ bwLast' = NoOperation
    /\ UNCHANGED <<bwStore, bwSession, bwInited, bwBreakpoints, bwUpdateRequested, bwDom, bwOthers>>

\* The manager's promise resolves: refreshBreakpoints assigns the answer,
\* sorts it and calls update().
BreakpointsRefreshed(i) ==
    /\ i \in 1..Len(bwAwaiting)
    /\ bwBreakpoints' = sort(bwAwaiting[i].answer)
    /\ bwUpdateRequested' = TRUE
    /\ bwAwaiting' = RemoveAt(bwAwaiting, i)
    /\ bwEvents' = <<>>
    /\ bwLast' = [kind |-> "refresh", alone |-> bwAwaiting[i].alone,
                  store |-> bwAwaiting[i].store]
    /\ UNCHANGED <<bwStore, bwSession, bwInited, bwDom, bwOthers>>

\* VirtualWidget runs render() for the requested update and patches the
\* elements under the node: an element that stays keeps the className it
\* has, or gets the rendered one again; a new element gets the rendered one.
Rendered(keep) ==
    /\ bwUpdateRequested
    /\ bwUpdateRequested' = FALSE
    /\ bwDom' = [k \in 1..Len(bwBreakpoints) |->
                    [breakpoint |-> bwBreakpoints[k],
                     className |-> IF keep /\ k <= Len(bwDom)
                                   THEN bwDom[k].className
                                   ELSE PlainClass]]
    /\ bwEvents' = <<>>
    /\ bwLast' = NoOperation
    /\ UNCHANGED <<bwStore, bwSession, bwInited, bwBreakpoints, bwAwaiting, bwOthers>>

\* `this.node.getElementsByClassName(SELECTED_CLASS)[0]`: the position of
\* the first element with the class, or 0.
FirstSelected(dom) ==
    IF \E k \in 1..Len(dom) : HasClass(dom[k], SELECTED_CLASS)
    THEN CHOOSE k \in 1..Len(dom) :
            /\ HasClass(dom[k], SELECTED_CLASS)
            /\ \A j \in 1..(k - 1) : ~HasClass(dom[j], SELECTED_CLASS)
    ELSE 0

\* An onclick handler that does not reset the element selected before.
onclickKeepsSelected(dom, target) ==
    [dom EXCEPT ![target].className = SelectedClass]

\* The onclick handler of an item, as it leaves the elements.
onclick(dom, target) ==
    LET selected == FirstSelected(dom)
        reset == IF selected # 0
                 THEN [dom EXCEPT ![selected].className = PlainClass]
                 ELSE dom
    IN [reset EXCEPT ![target].className = SelectedClass]

\* The user clicks the item at the position.
Clicked(target) ==
    /\ target \in 1..Len(bwDom)
    /\ bwDom' = onclick(bwDom, target)
    /\ bwEvents' = <<[emitter |-> "onDidClickBreakpoint",
                      breakpoint |-> bwDom[target].breakpoint]>>
    /\ bwLast' = [kind |-> "click", target |-> target]
    /\ UNCHANGED <<bwStore, bwSession, bwInited, bwBreakpoints, bwAwaiting,
                   bwUpdateRequested, bwOthers>>

\* The user double-clicks the item at the position.
DblClicked(target) ==
    /\ target \in 1..Len(bwDom)
    /\ bwEvents' = <<[emitter |-> "onDidDblClickBreakpoint",
                      breakpoint |-> bwDom[target].breakpoint]>>
    /\ bwLast' = [kind |-> "dblclick", target |-> target]
    /\ UNCHANGED <<bwStore, bwSession, bwInited, bwBreakpoints, bwAwaiting,
                   bwUpdateRequested, bwDom, bwOthers>>

\* The widget after construction: by the container with a session, which
\* runs init(), or by BreakpointsDialog with `new` and without a session.
BwInitial ==
    /\ bwStore \in SUBSET Breakpoints
    /\ \/ bwSession \in BwSessions /\ bwInited = TRUE
       \/ bwSession = NoSession /\ bwInited = FALSE
    /\ bwBreakpoints = <<>>
    /\ bwAwaiting = <<>>
    /\ bwUpdateRequested = FALSE
    /\ bwDom = <<>>
    /\ bwEvents = <<>>
    /\ bwLast = NoOperation

BwIdle ==
    /\ bwStore = {}
    /\ bwSession = NoSession
    /\ bwInited = FALSE
    /\ bwBreakpoints = <<>>
    /\ bwAwaiting = <<>>
    /\ bwUpdateRequested = FALSE
    /\ bwDom = <<>>
    /\ bwEvents = <<>>
    /\ bwLast = NoOperation

(***************************************************************************)
(* Editor decorations: BreakpointDecorator                                 *)
(***************************************************************************)
\* `Position.create(line, character)`
Position(line, character) == [line |-> line, character |-> character]

\* `Range.create(start, end)`
Range(start, end) == [start |-> start, end |-> end]

\* The editors, open or not, and the URI each one shows.
Editors == {"e1", "e2", "e3"}

EditorUri == [e \in Editors |-> IF e = "e2" THEN "file:///b.js" ELSE "file:///a.js"]

NoEditor == "(no editor)"

\* `created` of an AggregatedBreakpoint: absent, or a DebugProtocol.Breakpoint.
NotCreated == [type |-> "undefined"]

Created(verified) == [type |-> "object", verified |-> verified]

\* `source` of an AggregatedBreakpoint: absent, or a DebugProtocol.Source.
NoSource == [type |-> "undefined"]

Source(uri) == [type |-> "object", uri |-> uri]

\* The breakpoints that the storage may hold, in the order it keeps them:
\* source breakpoints of two files, a function breakpoint and an exception
\* breakpoint.
StoredOrder ==
    << [id |-> "p1", source |-> Source("file:///a.js"), line |-> 1, created |-> NotCreated],
       [id |-> "p2", source |-> Source("file:///a.js"), line |-> 3, created |-> Created(TRUE)],
       [id |-> "p3", source |-> Source("file:///b.js"), line |-> 1, created |-> Created(FALSE)],
       [id |-> "p4", source |-> NoSource, line |-> 0, created |-> Created(TRUE)] >>

StoredBreakpoints == {StoredOrder[k] : k \in 1..Len(StoredOrder)}

\* `InactiveBreakpointDecoration`
InactiveBreakpointDecoration ==
    [isWholeLine |-> FALSE, className |-> "theia-debug-inactive-breakpoint"]

\* `ActiveBreakpointDecoration`
ActiveBreakpointDecoration ==
    [isWholeLine |-> FALSE, className |-> "theia-debug-active-breakpoint"]

\* DebugUtils.isSourceBreakpoint
isSourceBreakpoint(b) == b.source # NoSource

\* DebugUtils.checkUri
checkUri(b, uri) == b.source # NoSource /\ b.source.uri = uri

\* BreakpointStorage.get(filter), for the filter isSourceBreakpoint.
StorageGet(storage) ==
    SelectSeq(StoredOrder, LAMBDA b : b \in storage /\ isSourceBreakpoint(b))

\* A range at the breakpoint's own line number.
BreakpointDecorator_toRangeOneBased(breakpoint) ==
    Range(Position(breakpoint.line, 0), Position(breakpoint.line, 0))

\* BreakpointDecorator.toRange
BreakpointDecorator_toRange(breakpoint) ==
    Range(Position(breakpoint.line - 1, 0), Position(breakpoint.line - 1, 0))

\* `!!b.created && !!b.created.verified ? Active... : Inactive...`
BreakpointOptions(b) ==
    IF b.created # NotCreated /\ b.created.verified
    THEN ActiveBreakpointDecoration
    ELSE InactiveBreakpointDecoration

MapDecorations(list) ==
    [k \in 1..Len(list) |->
        [range |-> BreakpointDecorator_toRange(list[k]),
         options |-> BreakpointOptions(list[k])]]

\* The decorations that applyDecorations computes for the editor.
DecorationsFor(storage, e) ==
    MapDecorations(SelectSeq(StorageGet(storage), LAMBDA b : checkUri(b, EditorUri[e])))

\* `editor ? [editor] : this.editorManager.all.map(widget => widget.editor)`
TargetedEditors(editor, open) == IF editor # NoEditor THEN {editor} ELSE open

\* BreakpointDecorator.applyDecorations: setDecorations replaces the
\* decorator's decorations of each targeted editor.
BreakpointDecorator_applyDecorations(editor) ==
    /\ bdDecorations' = [e \in Editors |->
            IF e \in TargetedEditors(editor, bdOpen)
            THEN DecorationsFor(bdStorage, e)
            ELSE bdDecorations[e]]
    /\ bdLast' = [kind |-> "apply", editor |-> editor]
    /\ UNCHANGED <<bdStorage, bdOpen, bdOthers>>

\* A breakpoint is added to the storage or removed from it.
StorageChanged(b) ==
    /\ bdStorage' = IF b \in bdStorage THEN bdStorage \ {b} ELSE bdStorage \cup {b}
    /\ bdLast' = [kind |-> "none", editor |-> NoEditor]
    /\ UNCHANGED <<bdOpen, bdDecorations, bdOthers>>

\* An editor is opened or closed.
EditorToggled(e) ==
    /\ bdOpen' = IF e \in bdOpen THEN bdOpen \ {e} ELSE bdOpen \cup {e}
    /\ bdLast' = [kind |-> "none", editor |-> NoEditor]
    /\ UNCHANGED <<bdStorage, bdDecorations, bdOthers>>

BdIdle ==
    /\ bdStorage = {}
    /\ bdOpen = {}
    /\ bdDecorations = [e \in Editors |-> <<>>]
    /\ bdLast = [kind |-> "none", editor |-> NoEditor]

(***************************************************************************)
(* Editor decorations: ActiveLineDecorator                                 *)
(***************************************************************************)
\* `ActiveLineDecoration`
ActiveLineDecoration == [isWholeLine |-> TRUE, className |-> "theia-debug-active-line"]

\* The editors that the active-line decorator sees open or closed.
LineEditors == {"e1", "e2"}

\* The threads of the debug session, in the order of state.stoppedThreadIds.
ThreadOrder == <<"t1", "t2">>

Threads == {ThreadOrder[k] : k \in 1..Len(ThreadOrder)}

\* An optional number of a DebugProtocol.StackFrame that is not there.
Absent == 0

NoFrame == [type |-> "undefined"]

\* DebugProtocol.StackFrame
StackFrame(source, line, column, endLine, endColumn) ==
    [type |-> "object", source |-> source, line |-> line, column |-> column,
     endLine |-> endLine, endColumn |-> endColumn]

\* What the top of a stopped thread's stack may be: nothing, a frame without
\* source, frames in files with and without an editor, with and without end.
TopFrames ==
    { [t \in Threads |-> IF t = "t1"
                         THEN StackFrame(Source("file:///a.js"), 3, 2, Absent, Absent)
                         ELSE StackFrame(Source("file:///b.js"), 5, 2, 6, 4)],
      [t \in Threads |-> IF t = "t1"
                         THEN StackFrame(NoSource, 1, 1, Absent, Absent)
                         ELSE StackFrame(Source("file:///c.js"), 2, 3, Absent, 7)],
      [t \in Threads |-> IF t = "t1"
                         THEN NoFrame
                         ELSE StackFrame(Source("file:///a.js"), 4, 1, 8, Absent)] }

\* The number of stack and editor lookups that may be pending.
MaxLookups == 2

\* A frame range that keeps the 1-based numbers of the protocol.
ActiveLineDecorator_toRangeOneBased(frame) ==
    Range(Position(frame.line, IF frame.endColumn # Absent THEN frame.column ELSE 0),
          Position(IF frame.endLine # Absent THEN frame.endLine ELSE frame.line,
                   IF frame.endColumn # Absent THEN frame.endColumn ELSE 0))

\* ActiveLineDecorator.toRange
ActiveLineDecorator_toRange(frame) ==
    Range(Position(frame.line - 1,
                   IF frame.endColumn # Absent THEN frame.column - 1 ELSE 0),
          Position(IF frame.endLine # Absent THEN frame.endLine - 1 ELSE frame.line - 1,
                   IF frame.endColumn # Absent THEN frame.endColumn - 1 ELSE 0))

\* ActiveLineDecorator.doShow: the decorations it sets on the editor.
doShow(frame) ==
    <<[range |-> ActiveLineDecorator_toRange(frame), options |-> ActiveLineDecoration]>>

\* DebugUtils.toUri
toUri(source) == source.uri

\* `session.stacks({ threadId, levels: 1 })` for each stopped thread.
StackRequests(stopped) ==
    LET threads == SelectSeq(ThreadOrder, LAMBDA t : t \in stopped)
    IN [k \in 1..Len(threads) |->
            [stage |-> "stacks", threadId |-> threads[k], levels |-> 1, frame |-> NoFrame]]

\* No applyDecorations call has been made yet.
NotApplied == [called |-> FALSE, threads |-> {}, open |-> {}, alone |-> TRUE]

\* What one applyDecorations call saw: the stopped threads of the active
\* session it asked the stacks of (none without an active session), the
\* editors it cleared, and whether no earlier lookup was still pending.
Applied(active, stopped, open, lookups) ==
    [called |-> TRUE,
     threads |-> IF active # NoSession THEN stopped ELSE {},
     open |-> open,
     alone |-> lookups = <<>>]

ApIdle == apApplied = NotApplied

\* ActiveLineDecorator.applyDecorations, up to the promises it leaves.
ActiveLineDecorator_applyDecorations ==
    LET requests == IF alActive # NoSession THEN StackRequests(alStopped) ELSE <<>>
    IN /\ Len(alPending) + Len(requests) <= MaxLookups
       /\ alDecorations' = [e \in LineEditors |->
                               IF e \in alOpen THEN <<>> ELSE alDecorations[e]]
       /\ alPending' = alPending \o requests
       /\ alLast' = [kind |-> "apply"]
       /\ apApplied' = Applied(alActive, alStopped, alOpen, alPending)
       /\ UNCHANGED <<alActive, alStopped, alTop, alOpen, alapOthers>>

\* The session answers a stacks request: `response.body.stackFrames[0]`; a
\* frame with a source leads to editorManager.getByUri.
StacksResponded(i) ==
    /\ i \in 1..Len(alPending)
    /\ alPending[i].stage = "stacks"
    /\ LET frame == IF alPending[i].threadId \in alStopped
                    THEN alTop[alPending[i].threadId] ELSE NoFrame
       IN /\ alPending' =
               IF frame = NoFrame \/ frame.source = NoSource
               THEN RemoveAt(alPending, i)
               ELSE [alPending EXCEPT ![i] = [stage |-> "editor",
                                              threadId |-> alPending[i].threadId,
                                              levels |-> 1, frame |-> frame]]
          /\ alLast' = [kind |-> "stacks", frame |-> frame]
    /\ UNCHANGED <<alActive, alStopped, alTop, alOpen, alDecorations, alOthers>>

\* EditorManager.getByUri: an open editor of the URI, or NoEditor.
getByUri(open, uri) ==
    IF \E e \in open : EditorUri[e] = uri
    THEN {e \in open : EditorUri[e] = uri}
    ELSE {NoEditor}

\* getByUri resolves: doShow for the widget it found.
EditorLookedUp(i, widget) ==
    /\ i \in 1..Len(alPending)
    /\ alPending[i].stage = "editor"
    /\ widget \in getByUri(alOpen, toUri(alPending[i].frame.source))
    /\ alDecorations' = IF widget # NoEditor
                        THEN [alDecorations EXCEPT ![widget] = doShow(alPending[i].frame)]
                        ELSE alDecorations
    /\ alPending' = RemoveAt(alPending, i)
    /\ alLast' = [kind |-> "editor", frame |-> alPending[i].frame, widget |-> widget]
    /\ UNCHANGED <<alActive, alStopped, alTop, alOpen, alOthers>>

\* The session manager gets or loses its active debug session.
ActiveSessionChanged ==
    /\ alActive' = IF alActive = NoSession THEN "s1" ELSE NoSession
    /\ alLast' = [kind |-> "none"]
    /\ UNCHANGED <<alStopped, alTop, alOpen, alDecorations, alPending, alOthers>>

\* A thread of the session stops or continues.
ThreadToggled(t) ==
    /\ alStopped' = IF t \in alStopped THEN alStopped \ {t} ELSE alStopped \cup {t}
    /\ alLast' = [kind |-> "none"]
    /\ UNCHANGED <<alActive, alTop, alOpen, alDecorations, alPending, alOthers>>

\* An editor is opened or closed.
LineEditorToggled(e) ==
    /\ alOpen' = IF e \in alOpen THEN alOpen \ {e} ELSE alOpen \cup {e}
    /\ alLast' = [kind |-> "none"]
    /\ UNCHANGED <<alActive, alStopped, alTop, alDecorations, alPending, alOthers>>

AlInitial ==
    /\ alActive = NoSession
    /\ alStopped = {}
    /\ alTop \in TopFrames
    /\ alOpen = {}
    /\ alDecorations = [e \in LineEditors |-> <<>>]
    /\ alPending = <<>>
    /\ alLast = [kind |-> "none"]

AlIdle ==
    /\ alActive = NoSession
    /\ alStopped = {}
    /\ alTop = [t \in Threads |-> NoFrame]
    /\ alOpen = {}
    /\ alDecorations = [e \in LineEditors |-> <<>>]
    /\ alPending = <<>>
    /\ alLast = [kind |-> "none"]

(***************************************************************************)
(* Debug panel: DebugTargetWidget and its child widgets                    *)
(***************************************************************************)
\* A target widget that leaves the breakpoints widget out of its list.
TargetWidgetsWithoutBreakpoints == <<"variables", "threads", "frames">>

\* `this.widgets = [this.variables, this.threads, this.frames, this.breakpoints]`
TargetWidgets == <<"variables", "threads", "frames", "breakpoints">>

\* The widgets that the container injects into the target widget.
ChildWidgets == {"variables", "threads", "frames", "breakpoints"}

RECURSIVE ForEachAttach(_, _, _)
\* `widgets.forEach(w => Widget.attach(w, this.node))` from position k:
\* Widget.attach throws for a widget that is attached already.
ForEachAttach(st, widgets, k) ==
    IF k > Len(widgets) THEN st
    ELSE IF st.attached[widgets[k]] THEN [st EXCEPT !.threw = TRUE]
    ELSE ForEachAttach([st EXCEPT !.attached[widgets[k]] = TRUE], widgets, k + 1)

RECURSIVE ForEachDetach(_, _, _)
\* `widgets.forEach(w => Widget.detach(w))` from position k: Widget.detach
\* throws for a widget that is not attached.
ForEachDetach(st, widgets, k) ==
    IF k > Len(widgets) THEN st
    ELSE IF ~st.attached[widgets[k]] THEN [st EXCEPT !.threw = TRUE]
    ELSE ForEachDetach([st EXCEPT !.attached[widgets[k]] = FALSE], widgets, k + 1)

\* The set of the widgets in the list.
Listed(widgets) == {widgets[k] : k \in 1..Len(widgets)}

\* Widget.attach(targetWidget, host): DebugTargetWidget.onAfterAttach.
TargetAttached ==
    /\ ~twAttached
    /\ twAttached' = TRUE
    /\ LET st == ForEachAttach([attached |-> twChildAttached, threw |-> FALSE],
                               TargetWidgets, 1)
       IN /\ twChildAttached' = st.attached
          /\ twThrew' = st.threw
    /\ twLast' = "after-attach"
    /\ UNCHANGED <<twUpdates, twActivations, twOthers>>

\* Widget.detach(targetWidget): DebugTargetWidget.onBeforeDetach.
TargetDetached ==
    /\ twAttached
    /\ twAttached' = FALSE
    /\ LET st == ForEachDetach([attached |-> twChildAttached, threw |-> FALSE],
                               TargetWidgets, 1)
       IN /\ twChildAttached' = st.attached
          /\ twThrew' = st.threw
    /\ twLast' = "before-detach"
    /\ UNCHANGED <<twUpdates, twActivations, twOthers>>

\* DebugTargetWidget.onUpdateRequest: update() posts an update request to
\* each widget of the list.
TargetUpdateRequested ==
    /\ twUpdates' = twUpdates \cup Listed(TargetWidgets)
    /\ twLast' = "update-request"
    /\ twThrew' = FALSE
    /\ UNCHANGED <<twAttached, twChildAttached, twActivations, twOthers>>

\* DebugTargetWidget.onActivateRequest: activate() posts an activate request
\* to each widget of the list.
TargetActivateRequested ==
    /\ twActivations' = twActivations \cup Listed(TargetWidgets)
    /\ twLast' = "activate-request"
    /\ twThrew' = FALSE
    /\ UNCHANGED <<twAttached, twChildAttached, twUpdates, twOthers>>

\* A child widget processes the requests posted to it.
ChildProcessed(w) ==
    /\ w \in twUpdates \cup twActivations
    /\ twUpdates' = twUpdates \ {w}
    /\ twActivations' = twActivations \ {w}
    /\ twLast' = "none"
    /\ twThrew' = FALSE
    /\ UNCHANGED <<twAttached, twChildAttached, twOthers>>

\* The target widget as the factory makes it: nothing attached or posted.
TwIdle ==
    /\ twAttached = FALSE
    /\ twChildAttached = [w \in ChildWidgets |-> FALSE]
    /\ twUpdates = {}
    /\ twActivations = {}
    /\ twThrew = FALSE
    /\ twLast = "none"

(***************************************************************************)
(* Quick open: the list of providers of the earlier service                *)
(***************************************************************************)
\* QuickOpenHandler.description
descriptionOf(h) ==
    CASE h = "cmd" -> "Quick Command"
      [] h = "cmdAlt" -> "Quick Command (alternative)"
      [] h = "deep" -> "Deep Search"
      [] h = "all" -> "Everything"
      [] h = "help" -> ""

\* `QuickOpenMode`
QuickOpenModes == {"PREVIEW", "OPEN", "OPEN_IN_BACKGROUND"}

\* The acceptor has not received a list of providers.
NoProviders == <<>>

NoRun == [item |-> 0, mode |-> "(none)", returned |-> FALSE,
          pendingBefore |-> <<>>, shownBefore |-> NoText]

\* `new QuickOpenItem({ label: item.prefix, description: item.description,
\* run: ... })`, with the handler that its run closure holds.
ProviderItem(h) ==
    [label |-> prefixOf(h), description |-> descriptionOf(h), handler |-> h]

\* The forEach over getHandlers() that pushes one item per handler.
ProviderItems(registered) ==
    [k \in 1..Len(registered) |-> ProviderItem(registered[k])]

\* A run that queries the handler's model in every mode.
EarlierRunAnyMode(item, mode, queries) ==
    [returned |-> FALSE, queries |-> Append(queries, QueryModel(item.handler, <<>>))]

\* The run function of an item of the earlier service.
EarlierRun(item, mode, queries) ==
    IF mode # "OPEN"
    THEN [returned |-> FALSE, queries |-> queries]
    ELSE [returned |-> FALSE, queries |-> Append(queries, QueryModel(item.handler, <<>>))]

\* QuickOpenService.model.onType of the earlier service.
EarlierOnType(lookFor) ==
    LET handler == getHandlerForText(lookFor)
    IN /\ typed' = lookFor
       /\ IF handler # Undefined
          THEN /\ Len(pending) < MaxPending
               /\ pending' = Append(pending,
                     QueryModel(handler, Substr(lookFor, Len(prefixOf(handler)))))
               /\ pvLast' = "dispatch"
               /\ UNCHANGED <<pvItems, pvRegistry>>
          ELSE /\ pvItems' = ProviderItems(getHandlers)
               /\ pvRegistry' = getHandlers
               /\ pvLast' = "list"
               /\ UNCHANGED pending
       /\ pvRun' = NoRun
       /\ UNCHANGED <<qoRegistryVars, currentPrefix, shown, typeError, produced,
                      accepted, pvOthers>>

\* The widget runs the k-th item that the acceptor received.
EarlierItemRun(k, mode) ==
    /\ k \in 1..Len(pvItems)
    /\ mode = "OPEN" => Len(pending) < MaxPending
    /\ LET r == EarlierRun(pvItems[k], mode, pending)
       IN /\ pending' = r.queries
          /\ pvRun' = [item |-> k, mode |-> mode, returned |-> r.returned,
                       pendingBefore |-> pending, shownBefore |-> shown]
    /\ pvLast' = "run"
    /\ typed' = NoText
    /\ UNCHANGED <<qoRegistryVars, currentPrefix, shown, typeError, produced,
                   accepted, pvItems, pvRegistry, pvOthers>>

\* A getModel() promise of the earlier service resolves: the handler's model
\* produces items and the callback hands them to the acceptor.
EarlierModelResolved(i, items) ==
    /\ i \in 1..Len(pending)
    /\ pending' = RemoveAt(pending, i)
    /\ produced' = items
    /\ accepted' = Forward(items)
    /\ typed' = NoText
    /\ pvLast' = "resolved"
    /\ pvRun' = NoRun
    /\ UNCHANGED <<qoRegistryVars, currentPrefix, shown, typeError, pvItems,
                   pvRegistry, pvOthers>>

PvIdle ==
    /\ pvItems = NoProviders
    /\ pvRegistry = <<>>
    /\ pvRun = NoRun
    /\ pvLast = "none"

(***************************************************************************)
(* Quick open: HelpQuickOpenHandler                                        *)
(***************************************************************************)
\* The handlers that register next to the help handler.
HandlersWithHelp == {"help", "cmd", "deep"}

\* A listing that forgets the filter on the help handler's own prefix.
HelpItemsUnfiltered(registered) == ProviderItems(registered)

\* HelpQuickOpenHandler.getModel: the items that onType builds from
\* getHandlers(), less every handler with the help handler's prefix.
HelpItems(registered) ==
    ProviderItems(SelectSeq(registered, LAMBDA h : prefixOf(h) # prefixOf("help")))

\* The run function of an item of the help handler: the prefix that it
\* passes to QuickOpenService.show, if it calls it.
HelpRun(item, mode) ==
    IF mode # "OPEN"
    THEN [returned |-> FALSE, calls |-> <<>>]
    ELSE [returned |-> FALSE, calls |-> <<item.label>>]

\* The onType of the help handler's model.
HelpOnType(lookFor) ==
    /\ pvItems' = HelpItems(getHandlers)
    /\ pvRegistry' = getHandlers
    /\ pvRun' = NoRun
    /\ pvLast' = "help"
    /\ UNCHANGED <<qoRegistryVars, qoServiceVars, pvOthers>>

\* The widget runs the k-th item of the help handler.
HelpItemRun(k, mode) ==
    /\ k \in 1..Len(pvItems)
    /\ LET r == HelpRun(pvItems[k], mode)
       IN /\ IF r.calls = <<>> THEN UNCHANGED shown ELSE Show(r.calls[1])
          /\ pvRun' = [item |-> k, mode |-> mode, returned |-> r.returned,
                       pendingBefore |-> pending, shownBefore |-> shown]
    /\ pvLast' = "helpRun"
    /\ UNCHANGED <<qoRegistryVars, currentPrefix, typed, typeError, pending,
                   produced, accepted, pvItems, pvRegistry, pvOthers>>

(***************************************************************************)
(* Debug panel: the tab close protocol                                     *)
(***************************************************************************)
\* debugSessionManager.find(sessionId): the live session with the id, if any.
find(sid) == IF sid \in dwSessions THEN sid ELSE Undefined

\* DebugWidget.onTabCloseRequested: the sessions it calls disconnect() on.
onTabCloseRequested(sid) ==
    LET session == find(sid)
    IN IF session # Undefined THEN {session} ELSE {}

\* The user asks to close a tab of the attached panel: the tab bar emits
\* tabCloseRequested.
TabCloseRequested(sid) ==
    /\ dwInited
    /\ dwPanelAttached
    /\ TitlesOf(dwTabs, sid) # {}
    /\ dcCloseRequested' = dcCloseRequested \cup {sid}
    /\ dcDisconnected' = dcDisconnected \cup onTabCloseRequested(sid)
    /\ UNCHANGED dcOthers

\* The session manager emits the destroy event of a disconnected session.
DestroyDisconnected(sid) ==
    /\ sid \in dcDisconnected
    /\ SessionDestroyed(sid)

DcIdle ==
    /\ dcCloseRequested = {}
    /\ dcDisconnected = {}

(***************************************************************************)
(* Breakpoints view: the listeners of DebugBreakpointsWidget               *)
(***************************************************************************)
NoListeners == [manager |-> {}, session |-> {}, onDetach |-> {}]

\* DebugBreakpointsWidget.init: the listeners it registers on the manager
\* and on the session, and the disposables it pushes to toDisposeOnDetach.
init(debugSession) ==
    IF debugSession # NoSession
    THEN [manager |-> {"onDidChangeBreakpoints"},
          session |-> {"configurationDone"},
          onDetach |-> {"onDidChangeBreakpoints", "configurationDone"}]
    ELSE [manager |-> {"onDidChangeBreakpoints"},
          session |-> {},
          onDetach |-> {"onDidChangeBreakpoints"}]

\* toDisposeOnDetach.dispose(): every pushed disposable removes its listener.
DisposeOnDetach(listeners) ==
    [manager |-> listeners.manager \ listeners.onDetach,
     session |-> listeners.session \ listeners.onDetach,
     onDetach |-> {}]

\* The widget is attached: by DebugTargetWidget.onAfterAttach, or by
\* BreakpointsDialog.onAfterAttach.
BreakpointsWidgetAttached ==
    /\ ~blAttached
    /\ blAttached' = TRUE
    /\ blLast' = [event |-> "attach", attached |-> TRUE, refreshes |-> 0]
    /\ UNCHANGED <<blListeners, blOthers>>

\* The widget is detached: the base widget disposes toDisposeOnDetach.
BreakpointsWidgetDetached ==
    /\ blAttached
    /\ blAttached' = FALSE
    /\ blListeners' = DisposeOnDetach(blListeners)
    /\ blLast' = [event |-> "detach", attached |-> FALSE, refreshes |-> 0]
    /\ UNCHANGED blOthers

\* The manager adds or removes a breakpoint and fires onDidChangeBreakpoints:
\* each listener of the widget calls refreshBreakpoints.
ManagerFired(breakpoint) ==
    /\ bwStore' = IF breakpoint \in bwStore THEN bwStore \ {breakpoint}
                  ELSE bwStore \cup {breakpoint}
    /\ blLast' = [event |-> "onDidChangeBreakpoints", attached |-> blAttached,
                  refreshes |-> Cardinality(blListeners.manager)]
    /\ UNCHANGED <<blAttached, blListeners, bwSession, bwInited, bwBreakpoints,
                   bwAwaiting, bwUpdateRequested, bwDom, bwEvents, bwLast, blbwOthers>>

\* The widget's session emits 'configurationDone'.
SessionFired ==
    /\ bwSession # NoSession
    /\ blLast' = [event |-> "configurationDone", attached |-> blAttached,
                  refreshes |-> Cardinality(blListeners.session)]
    /\ UNCHANGED <<blAttached, blListeners, blOthers>>

\* BreakpointsDialog.open calls refreshBreakpoints of the widget it built.
DialogOpen ==
    /\ ~bwInited
    /\ blLast' = [event |-> "open", attached |-> blAttached, refreshes |-> 1]
    /\ UNCHANGED <<blAttached, blListeners, blOthers>>

\* The listeners of the widget after construction: those of init() for a
\* widget from the container, none for one that was built with `new`.
BlInitial ==
    /\ blAttached = FALSE
    /\ blListeners = IF bwInited THEN init(bwSession) ELSE NoListeners
    /\ blLast = [event |-> "none", attached |-> FALSE, refreshes |-> 0]

BlIdle ==
    /\ blAttached = FALSE
    /\ blListeners = NoListeners
    /\ blLast = [event |-> "none", attached |-> FALSE, refreshes |-> 0]

(***************************************************************************)
(* Quick open: specifications                                              *)
(***************************************************************************)
QoRegistryInit ==
    /\ handlers = <<>>
    /\ defaultHandler = Undefined
    /\ toDispose = {}
    /\ regCall = NoCall

QoServiceInit ==
    /\ currentPrefix = NoPrefix
    /\ shown = NoText
    /\ typed = NoText
    /\ typeError = FALSE
    /\ pending = <<>>
    /\ produced = NoItems
    /\ accepted = NoItems

Init ==
    /\ QoRegistryInit
    /\ QoServiceInit
    /\ ApIdle
    /\ BlIdle
    /\ DcIdle
    /\ PvIdle
    /\ TwIdle
    /\ AlIdle
    /\ BdIdle
    /\ BwIdle
    /\ PmIdle
    /\ NjIdle
    /\ DwIdle
    /\ MtInit

\* The registry as contributions and their clients drive it.
NextRegistry ==
    \/ \E h \in Handlers : RegisterHandler(h)
    \/ \E h \in DefaultCandidates : RegisterDefaultHandler(h)
    \/ \E d \in toDispose \cup {regCall.ret} : DisposeReturned(d)
    \/ RegistryDispose

SpecRegistry == Init /\ [][NextRegistry]_vars

\* The registries that the contributions' registerHandler calls build at
\* application start.
StartRegistries ==
    { <<>>, <<"cmd">>, <<"cmd", "deep">>, <<"deep", "cmd">>, <<"all">>,
      <<"deep", "all">>, <<"cmdAlt", "all", "deep">> }

\* The service after application start: the handlers are registered, then
\* the user types.
InitService ==
    /\ handlers \in StartRegistries
    /\ defaultHandler \in DefaultCandidates \cup {Undefined}
    /\ toDispose = {HandlerDisposable(handlers[i]) : i \in 1..Len(handlers)}
                    \cup (IF defaultHandler = Undefined THEN {}
                          ELSE {DefaultDisposable(defaultHandler)})
    /\ regCall = NoCall
    /\ QoServiceInit
    /\ ApIdle
    /\ BlIdle
    /\ DcIdle
    /\ PvIdle
    /\ TwIdle
    /\ AlIdle
    /\ BdIdle
    /\ BwIdle
    /\ PmIdle
    /\ NjIdle
    /\ DwIdle
    /\ MtInit

NextService ==
    \/ \E t \in Texts : OnType(t)
    \/ \E i \in 1..MaxPending, items \in ItemLists : ModelResolved(i, items)

SpecService == InitService /\ [][NextService]_vars

(***************************************************************************)
(* Quick open: properties                                                  *)
(***************************************************************************)
\* The positions of the registered handlers whose prefix the text starts with.
Matching(t) == {i \in 1..Len(handlers) : StartsWith(t, prefixOf(handlers[i]))}

\* The earliest registered of them.
FirstMatching(t) == handlers[CHOOSE i \in Matching(t) : \A j \in Matching(t) : i <= j]

\* A step that runs a getModel() callback hands the produced items to the
\* acceptor as they are.
ItemsForwarded ==
    Len(pending') < Len(pending) => produced' \in ItemLists /\ accepted' = produced'

\* An onType call whose text matches a registered prefix that is the current
\* prefix queues exactly one query: the matched handler, the text after the
\* prefix.
DispatchStep ==
    ( /\ typed' # NoText
      /\ Matching(typed') # {}
      /\ prefixOf(FirstMatching(typed')) = currentPrefix )
    => \E s \in Texts :
         /\ prefixOf(FirstMatching(typed')) \o s = typed'
         /\ pending' = Append(pending, [h |-> FirstMatching(typed'), search |-> s])
         /\ UNCHANGED <<currentPrefix, shown, typeError>>

\* C1: an onType call whose text starts with a registered prefix that is the
\* current prefix queries the matched handler's model, and only it, with the
\* text after the prefix; the items it produces reach the acceptor unchanged.
C1_Dispatch == [][DispatchStep /\ ItemsForwarded]_vars

C1_Witness ==
    /\ typed = <<">", ">", "a">>
    /\ handlers = <<"deep", "cmd">>
    /\ pending = <<[h |-> "deep", search |-> <<"a">>]>>
    /\ accepted = <<"item1", "item2">>

\* An onType call that matches no registered prefix, with a default handler
\* and the current prefix empty, queues exactly one query: the default
\* handler, the whole text.
FallbackStep ==
    ( /\ typed' # NoText
      /\ defaultHandler # Undefined
      /\ Matching(typed') = {}
      /\ currentPrefix = <<>> )
    => ( /\ pending' = Append(pending, [h |-> defaultHandler, search |-> typed'])
         /\ UNCHANGED <<currentPrefix, shown, typeError>> )

\* C2: with a default handler registered, a text that starts with no
\* registered prefix, typed while the current prefix is the empty string,
\* goes whole to the default handler's model and to no other, and that
\* model's items reach the acceptor.
C2_Fallback ==
    [][FallbackStep /\ (Len(pending') < Len(pending) => accepted' = produced')]_vars

C2_Witness ==
    /\ typed = <<"?", "a">>
    /\ handlers = <<"cmd", "deep">>
    /\ currentPrefix = <<>>
    /\ pending = <<[h |-> "cmdAlt", search |-> <<"?", "a">>]>>

AtMostOneHandlerPerPrefix ==
    \A i, j \in 1..Len(handlers) :
        prefixOf(handlers[i]) = prefixOf(handlers[j]) => i = j

\* A registerHandler call for a prefix that is taken changes nothing, warns
\* and returns the null disposable.
RegisterTakenStep ==
    ( /\ regCall'.op = "registerHandler"
      /\ \E i \in 1..Len(handlers) : prefixOf(handlers[i]) = prefixOf(regCall'.h) )
    => ( /\ handlers' = handlers
         /\ regCall'.warned
         /\ regCall'.ret = NullDisposable
         /\ UNCHANGED <<defaultHandler, toDispose>> )

\* dispose() of the null disposable changes nothing.
DisposeNullStep ==
    (regCall'.op = "dispose" /\ regCall'.ret = NullDisposable)
    => UNCHANGED <<handlers, defaultHandler, toDispose>>

\* C3: registerHandler for a prefix that is taken leaves the map as it is,
\* logs a warning and returns the null disposable, whose dispose() changes
\* nothing; the registry never holds two handlers for one prefix.
C3_RegisterTwice ==
    /\ []AtMostOneHandlerPerPrefix
    /\ [][RegisterTakenStep /\ DisposeNullStep]_vars

C3_Witness ==
    /\ regCall = [op |-> "registerHandler", h |-> "cmdAlt",
                  ret |-> NullDisposable, warned |-> TRUE]
    /\ handlers = <<"deep", "cmd">>

\* C4: getHandlerForText is undefined exactly when no registered prefix is a
\* prefix of the text, and is otherwise the earliest registered handler
\* whose prefix is one.
C4_FirstRegisteredWins ==
    \A t \in Texts :
        /\ getHandlerForText(t) = Undefined <=> Matching(t) = {}
        /\ Matching(t) # {} => getHandlerForText(t) = FirstMatching(t)

C4_Witness ==
    /\ handlers = <<"all", "cmd", "deep">>
    /\ getHandlerForText(<<">", ">", "a">>) = "all"
    /\ getHandlerForText(<<"a">>) = "all"

\* The map without the handler h itself, whatever its prefix.
WithoutHandler(map, h) == SelectSeq(map, LAMBDA x : x # h)

\* dispose() of the disposable that registerHandler(h) returned takes h out
\* of the map, if it is there, and nothing else.
DisposeOwnStep ==
    (regCall'.op = "dispose" /\ regCall'.ret.kind = "handler")
    => handlers' = WithoutHandler(handlers, regCall'.ret.h)

\* The registry's dispose() leaves no handler registered.
RegistryDisposeStep ==
    regCall'.op = "registryDispose" => handlers' = <<>>

\* C21: the disposable of a successful registerHandler(h), and the registry's
\* dispose(), remove h and no other handler: disposing it again after another
\* handler took the prefix leaves that handler registered, and disposing it
\* twice equals disposing it once.
C21_DisposeRemovesOnlyOwn == [][DisposeOwnStep /\ RegistryDisposeStep]_vars

\* The registry's dispose() on its own.
RegistryDisposeEmpties == [][RegistryDisposeStep]_vars

\* registerDefaultHandler(h) makes h the default handler and leaves the
\* map, and so getHandlers and getHandlerForText, as they are.
RegisterDefaultStep ==
    regCall'.op = "registerDefaultHandler" =>
        /\ defaultHandler' = regCall'.h
        /\ handlers' = handlers
        /\ \A t \in Texts : ScanHandlers(handlers', t, 1) = ScanHandlers(handlers, t, 1)

\* dispose() of the disposable that registerDefaultHandler(h) returned takes
\* h out of the default and leaves the map as it is.
DisposeDefaultStep ==
    (regCall'.op = "dispose" /\ regCall'.ret.kind = "default") =>
        /\ defaultHandler' # regCall'.ret.h
        /\ handlers' = handlers

\* C22: registerDefaultHandler(h) sets the default handler without touching
\* the prefix-keyed map, a later call replaces the default, and the
\* disposable it returns unregisters the default handler and leaves every
\* handler of the map in place, also one with the prefix of h.
C22_DefaultHandlerFrame == [][RegisterDefaultStep /\ DisposeDefaultStep]_vars

\* The registration half on its own.
RegisterDefaultKeepsMap == [][RegisterDefaultStep]_vars

(***************************************************************************)
(* Debug panel: specification and properties                               *)
(***************************************************************************)
InitDebug ==
    /\ QoRegistryInit
    /\ QoServiceInit
    /\ ApIdle
    /\ BlIdle
    /\ DcIdle
    /\ PvIdle
    /\ TwIdle
    /\ AlIdle
    /\ BdIdle
    /\ BwIdle
    /\ PmIdle
    /\ NjIdle
    /\ DwInitial
    /\ MtInit

NextDebug ==
    \/ DwInit
    \/ \E sid \in Sessions : SessionCreated(sid)
    \/ \E sid \in Sessions : SessionDestroyed(sid)
    \/ PanelAttached
    \/ PanelDetached
    \/ \E sid \in Sessions : TabSelected(sid)

SpecDebug == InitDebug /\ [][NextDebug]_vars

\* The session ids of the tabs, in tab order.
TabSessionIds == [i \in 1..Len(dwTabs) |-> dwTabs[i].sessionId]

\* C5: once init has run, after any create and destroy events, the tabs are
\* exactly the live sessions, one tab each.
C5_TabsAreLiveSessions ==
    dwInited =>
        /\ \A i, j \in 1..Len(dwTabs) : dwTabs[i].sessionId = dwTabs[j].sessionId => i = j
        /\ {dwTabs[i].sessionId : i \in 1..Len(dwTabs)} = dwSessions

\* Every tab's widget is attached exactly when the panel is.
TabsAttachedWithPanel ==
    \A i \in 1..Len(dwTabs) : dwTabs[i].attached = dwPanelAttached

\* A destroy event that the widget hears removes the session's tab and
\* throws nothing.
DestroyRemovesTab ==
    (dwInited /\ dwSessions' # dwSessions /\ dwSessions' \subseteq dwSessions) =>
        /\ \A sid \in dwSessions \ dwSessions' : TitlesOf(dwTabs', sid) = {}
        /\ ~dwThrew'

\* C18: after any sequence of panel attach/detach and session create/destroy
\* events every tab's widget is attached exactly when the panel is, and a
\* destroy event removes the session's tab without an error whether the
\* panel is attached or detached.
C18_AttachedAndDestroyed == [][TabsAttachedWithPanel' /\ DestroyRemovesTab]_vars

\* While a tab exists, the active debug session that the widget set last is
\* the session of the current tab.
CurrentIsActive ==
    Len(dwTabs) > 0 => dwCurrent # NoTab /\ dwActive = dwCurrent

\* The tabs other than the current one are hidden, the current one is shown.
OnlyCurrentShown ==
    \A i \in 1..Len(dwTabs) : dwTabs[i].hidden <=> dwTabs[i].sessionId # dwCurrent

\* A new tab becomes the current tab; a change of the current tab to a tab
\* sets that tab's session active; the removal of the last tab sets nothing.
CurrentTabStep ==
    /\ Len(dwTabs') > Len(dwTabs) => dwCurrent' = dwTabs'[Len(dwTabs')].sessionId
    /\ (dwCurrent' # dwCurrent /\ dwCurrent' # NoTab) => dwActive' = dwCurrent'
    /\ (Len(dwTabs) > 0 /\ Len(dwTabs') = 0) => dwCurrent' = NoTab /\ dwActive' = dwActive

\* C19: a new session's tab becomes the current tab, every change of the
\* current tab hides the previous widget, shows the new one and sets the new
\* tab's session active; so while a tab exists the active session is the one
\* of the current tab, also after the current tab's session was destroyed,
\* and the removal of the last tab sets no active session.
C19_CurrentTabIsActiveSession ==
    /\ [](CurrentIsActive /\ OnlyCurrentShown)
    /\ [][CurrentTabStep]_vars

\* Three sessions had tabs, the tab of s1 was removed when its session was
\* destroyed, and of the two tabs left the current one, s3, is shown and
\* active, with no previous tab for the tab bar to go back to.
C19_Witness ==
    /\ TabSessionIds = <<"s2", "s3">>
    /\ dwUsed = Sessions
    /\ dwSessions = {"s2", "s3"}
    /\ dwCurrent = "s3"
    /\ dwPrevious = NoTab
    /\ dwActive = "s3"
    /\ dwTabs[1].hidden
    /\ ~dwThrew

(***************************************************************************)
(* Markers tree: specification and properties                              *)
(***************************************************************************)
InitMarkers ==
    /\ QoRegistryInit
    /\ QoServiceInit
    /\ ApIdle
    /\ BlIdle
    /\ DcIdle
    /\ PvIdle
    /\ TwIdle
    /\ AlIdle
    /\ BdIdle
    /\ BwIdle
    /\ PmIdle
    /\ NjIdle
    /\ DwIdle
    /\ MtInit

NextMarkers ==
    \/ \E u \in Uris, ms \in MarkerLists : MarkersChanged(u, ms)
    \/ \E i \in 1..MaxRefreshes : RefreshResumed(i)

SpecMarkers == InitMarkers /\ [][NextMarkers]_vars

\* The number of times the info node of u stands under the root.
TimesInRoot(u) == Cardinality({i \in 1..Len(mtRoot) : mtRoot[i] = u})

\* The tree shows the store's markers of u: no info node if there are none,
\* else one info node that counts them and carries them in order.
ReflectsStore(u) ==
    LET ms == mtStore[u]
        n == Len(ms)
    IN IF n = 0
       THEN /\ TimesInRoot(u) = 0
            /\ mtIndex[u] # "info"
       ELSE /\ TimesInRoot(u) = 1
            /\ mtIndex[u] = "info"
            /\ mtInfo[u] # NoNode
            /\ mtInfo[u].numberOfMarkers = n
            /\ Len(mtInfo[u].children) = n
            /\ \A i \in 1..n :
                 /\ mtInfo[u].children[i] = u \o <<"_", Digits[i]>>
                 /\ mtMarker[mtInfo[u].children[i]] = ms[i]

\* C6: a refreshMarkerInfo(uri) that ran alone leaves the tree showing the
\* store's markers of the URI; without markers and without an info node it
\* fires no change, and it fires one when it removes the info node.
C6_RefreshReflectsStore ==
    mtLast.alone =>
        /\ ReflectsStore(mtLast.uri)
        /\ mtStore[mtLast.uri] = <<>> => (mtFired <=> mtLast.existed)

\* C17: once every started refreshMarkerInfo has completed, the tree shows
\* the store's markers of every URI: an info node exists exactly when the
\* store has a marker for the URI, stands once under the root, and counts
\* and carries the store's current markers.
C17_QuiescentTreeReflectsStore ==
    mtInflight = <<>> => \A u \in Uris : ReflectsStore(u)

(***************************************************************************)
(* Node.js debug adapter: specification and properties                     *)
(***************************************************************************)
InitNodeJs ==
    /\ QoRegistryInit
    /\ QoServiceInit
    /\ ApIdle
    /\ BlIdle
    /\ DcIdle
    /\ PvIdle
    /\ TwIdle
    /\ AlIdle
    /\ BdIdle
    /\ BwIdle
    /\ PmIdle
    /\ DwIdle
    /\ MtInit
    /\ NjInitial

NextNodeJs ==
    \/ Resolve
    \/ \E request \in Requests, processId \in ProcessIds :
         EditConfiguration(request, processId)

SpecNodeJs == InitNodeJs /\ [][NextNodeJs]_vars

\* The step is a call of resolveDebugConfiguration.
ResolveStep == njResult' # NotResolved

MissingOrEmpty(v) == v \in {JsUndefined, JsNull, JsString("")}

\* What the validation does with the configuration the step starts from.
ResolveOutcome ==
    IF MissingOrEmpty(njConfig.request)
    THEN /\ njResult'.thrown = "Debug request type is not provided."
         /\ njResult'.returned = NoConfig
    ELSE IF njConfig.request = JsString("attach") /\ MissingOrEmpty(njConfig.processId)
    THEN /\ njResult'.thrown = "PID is not provided."
         /\ njResult'.returned = NoConfig
    ELSE /\ njResult'.thrown = NoError
         /\ njResult'.returned = njConfig'
         /\ njConfig' = [njConfig EXCEPT !.breakpoints = NodeBreakpoints]
         /\ njConfig'.breakpoints.filePatterns = <<"[.]js$", "[.]ts$">>

\* C7: resolveDebugConfiguration fails with 'Debug request type is not
\* provided.' on a missing or empty request, with 'PID is not provided.' on
\* an attach request with a missing or empty processId, and otherwise
\* returns the same configuration with the Node.js file patterns.
C7_ResolveValidates == [][ResolveStep => ResolveOutcome]_vars

\* A launch configuration without a processId has been resolved and returned.
C7_Witness ==
    /\ njResult.thrown = NoError
    /\ njResult.returned = njConfig
    /\ njConfig.request = JsString("launch")
    /\ njConfig.processId = JsString("")

(***************************************************************************)
(* Preferences: specification and properties                               *)
(***************************************************************************)
InitPreferences ==
    /\ QoRegistryInit
    /\ QoServiceInit
    /\ ApIdle
    /\ BlIdle
    /\ DcIdle
    /\ PvIdle
    /\ TwIdle
    /\ AlIdle
    /\ BdIdle
    /\ BwIdle
    /\ DwIdle
    /\ MtInit
    /\ NjIdle
    /\ PmIdle

NextPreferences ==
    \/ \E id \in PreferenceIds, savedPreference \in SavedPreferences,
          property \in Properties : CreateMenu(id, savedPreference, property)
    \/ \E i \in 1..Len(pmMenu.items) : SelectItem(i)

SpecPreferences == InitPreferences /\ [][NextPreferences]_vars

\* The labels of the menu's items, in menu order.
MenuLabels ==
    [i \in 1..Len(pmMenu.items) |-> CommandOf(pmMenu.commands, pmMenu.items[i]).label]

\* The position of the first occurrence of a value in an enum.
FirstIndex(enumConst, value) ==
    CHOOSE i \in 1..Len(enumConst) :
        /\ enumConst[i] = value
        /\ \A j \in 1..(i - 1) : enumConst[j] # value

\* The labels are the distinct values of the enum, in enum order.
DistinctInOrder(labels, enumConst) ==
    /\ {labels[i] : i \in 1..Len(labels)} = {enumConst[i] : i \in 1..Len(enumConst)}
    /\ \A i, j \in 1..Len(labels) :
         i < j => FirstIndex(enumConst, labels[i]) < FirstIndex(enumConst, labels[j])

\* The menu is the one the schema of the property calls for.
MenuFollowsSchema ==
    IF pmProperty = JsUndefined
    THEN MenuLabels = <<>>
    ELSE IF pmProperty.fields.enum # JsUndefined
    THEN DistinctInOrder(MenuLabels, pmProperty.fields.enum.elements)
    ELSE IF pmProperty.fields.type = JsString("boolean")
    THEN MenuLabels = <<"true", "false">>
    ELSE MenuLabels = <<"Add Value">>

\* What selecting the item at pmSelected is to pass to execute.
ExpectedValue ==
    IF pmProperty.fields.enum # JsUndefined
    THEN JsString(MenuLabels[pmSelected])
    ELSE IF pmProperty.fields.type = JsString("boolean")
    THEN JsString(MenuLabels[pmSelected])
    ELSE IF pmProperty.fields.default \in {JsUndefined, JsString(""), JsBoolean(FALSE)}
    THEN JsString("")
    ELSE pmProperty.fields.default

\* C8: the menu is empty without a property, has one item per distinct enum
\* value in enum order for an enum (also when the type is 'boolean'), the
\* items 'true' and 'false' for a boolean without an enum, and the item
\* 'Add Value' otherwise; a selected item runs execute with the preference
\* id and the item's value, the strings 'true'/'false' for a boolean and the
\* default or '' for 'Add Value'.
C8_MenuFollowsSchema ==
    /\ MenuFollowsSchema
    /\ pmSelected # NoSelection =>
         pmExecuted = [property |-> pmId, value |-> ExpectedValue]

\* The second item of an enum with a repeated value and type 'boolean' has
\* been selected.
C8_Witness ==
    /\ pmProperty # JsUndefined
    /\ pmProperty.fields.enum = JsArray(<<"on", "off", "on">>)
    /\ pmProperty.fields.type = JsString("boolean")
    /\ Len(pmMenu.items) = 2
    /\ pmSelected = 2
    /\ pmExecuted = [property |-> "editor.mode", value |-> JsString("off")]

(***************************************************************************)
(* Preferences: the check mark                                             *)
(***************************************************************************)
NextCheckMark ==
    \/ \E id \in PreferenceIds, savedPreference \in SavedValues,
          property \in MarkedProperties : CreateMenu(id, savedPreference, property)
    \/ \E i \in 1..Len(pmMenu.items) : SelectItem(i)

SpecCheckMark == InitPreferences /\ [][NextCheckMark]_vars

\* The items that carry the check icon.
CheckedItems ==
    {i \in 1..Len(pmMenu.items) :
        CommandOf(pmMenu.commands, pmMenu.items[i]).iconClass = "fa fa-check"}

\* The value in effect: the saved preference, or the default without one.
EffectiveValue ==
    IF pmSaved # JsUndefined THEN pmSaved ELSE pmProperty.fields.default

\* The item at i stands for the value: by its label, and in a boolean menu
\* for the boolean as well as for its string.
ItemStandsFor(i, v) ==
    \/ v = JsString(MenuLabels[i])
    \/ /\ pmProperty.fields.enum = JsUndefined
       /\ v.type = "boolean"
       /\ v.value = MenuLabels[i]

\* At most one item is checked, and it is the item of the value in effect.
CheckMarkFollowsValue ==
    pmProperty # JsUndefined =>
        /\ Cardinality(CheckedItems) <= 1
        /\ \A i \in 1..Len(pmMenu.items) :
             i \in CheckedItems <=> ItemStandsFor(i, EffectiveValue)

\* C23: in an enum menu with distinct values and in a boolean menu at most
\* one item carries the check icon, the item of the saved preference when
\* one is saved and the item of the schema default only when none is saved,
\* for every saved value, falsy values and booleans included.
C23_CheckMark == CheckMarkFollowsValue

\* The same for the saved values that are non-empty strings, and for none.
CheckMarkForStrings ==
    (pmSaved = JsUndefined \/ (pmSaved.type = "string" /\ pmSaved.value # ""))
        => CheckMarkFollowsValue

(***************************************************************************)
(* Breakpoints view: specification and properties                          *)
(***************************************************************************)
InitBreakpoints ==
    /\ QoRegistryInit
    /\ QoServiceInit
    /\ ApIdle
    /\ BlIdle
    /\ DcIdle
    /\ PvIdle
    /\ TwIdle
    /\ AlIdle
    /\ BdIdle
    /\ DwIdle
    /\ MtInit
    /\ NjIdle
    /\ PmIdle
    /\ BwInitial

NextBreakpoints ==
    \/ \E breakpoint \in Breakpoints : BreakpointsChanged(breakpoint)
    \/ ConfigurationDone
    \/ DialogOpened
    \/ \E i \in 1..MaxAwaiting : BreakpointsRefreshed(i)
    \/ \E keep \in BOOLEAN : Rendered(keep)
    \/ \E target \in 1..Len(bwDom) : Clicked(target)
    \/ \E target \in 1..Len(bwDom) : DblClicked(target)

SpecBreakpoints == InitBreakpoints /\ [][NextBreakpoints]_vars

\* The list is made of the breakpoints of the set that satisfy Wanted(_), each
\* once, in the order of the manager.
ListsExactly(list, store, Wanted(_)) ==
    /\ {list[k] : k \in 1..Len(list)} = {b \in store : Wanted(b)}
    /\ \A j, k \in 1..Len(list) : j < k =>
         \E m, n \in 1..Len(BreakpointOrder) :
            m < n /\ BreakpointOrder[m] = list[j] /\ BreakpointOrder[n] = list[k]

OfWidgetSession(b) == b.sessionId = bwSession

AnySession(b) == TRUE

\* The breakpoints the widget holds or shows.
ShownBreakpoints ==
    {bwBreakpoints[k] : k \in 1..Len(bwBreakpoints)}
        \cup {bwDom[k].breakpoint : k \in 1..Len(bwDom)}

\* C9: a refreshBreakpoints that ran alone leaves the widget's list equal to
\* the manager's breakpoints of the widget's session, or to all of them for
\* a widget without a session, and has requested an update; a widget with a
\* session never shows a breakpoint of another session.
C9_RefreshShowsSessionBreakpoints ==
    /\ (bwLast.kind = "refresh" /\ bwLast.alone) =>
         /\ bwUpdateRequested
         /\ IF bwSession # NoSession
            THEN ListsExactly(bwBreakpoints, bwLast.store, OfWidgetSession)
            ELSE ListsExactly(bwBreakpoints, bwLast.store, AnySession)
    /\ bwSession # NoSession => \A b \in ShownBreakpoints : b.sessionId = bwSession

\* A widget of session s1 has refreshed alone while the manager held the
\* breakpoints of both sessions.
C9_Witness ==
    /\ bwLast.kind = "refresh"
    /\ bwLast.alone
    /\ bwSession = "s1"
    /\ bwLast.store = Breakpoints
    /\ Len(bwBreakpoints) = 2

\* The positions of the elements with the selected class.
SelectedItems(dom) == {k \in 1..Len(dom) : HasClass(dom[k], SELECTED_CLASS)}

AtMostOneSelected == Cardinality(SelectedItems(bwDom)) <= 1

\* A click fires onDidClickBreakpoint once, with the breakpoint of the item,
\* and leaves the item as the only selected one, the others plain.
ClickStep ==
    bwLast'.kind = "click" =>
        /\ bwEvents' = <<[emitter |-> "onDidClickBreakpoint",
                          breakpoint |-> bwDom[bwLast'.target].breakpoint]>>
        /\ SelectedItems(bwDom') = {bwLast'.target}
        /\ \A k \in 1..Len(bwDom') :
             /\ bwDom'[k].breakpoint = bwDom[k].breakpoint
             /\ k # bwLast'.target => bwDom'[k].className = PlainClass

\* A double click fires onDidDblClickBreakpoint once, with the breakpoint of
\* the item, and leaves the selection as it is.
DblClickStep ==
    bwLast'.kind = "dblclick" =>
        /\ bwEvents' = <<[emitter |-> "onDidDblClickBreakpoint",
                          breakpoint |-> bwDom[bwLast'.target].breakpoint]>>
        /\ bwDom' = bwDom

\* C10: a click fires onDidClickBreakpoint exactly once with the item's
\* breakpoint and makes the item the only selected one; a double click fires
\* onDidDblClickBreakpoint exactly once with the item's breakpoint and does
\* not change the selection; at most one item is selected at any time.
C10_SelectionEvents ==
    /\ []AtMostOneSelected
    /\ [][ClickStep /\ DblClickStep]_vars

\* An item was selected and a click on another item has moved the selection.
C10_Witness ==
    /\ bwLast.kind = "click"
    /\ bwLast.target = 2
    /\ Len(bwDom) = 3
    /\ SelectedItems(bwDom) = {2}
    /\ bwEvents = <<[emitter |-> "onDidClickBreakpoint",
                     breakpoint |-> BreakpointOrder[2]]>>

(***************************************************************************)
(* Breakpoints view: overlapping refreshes                                 *)
(***************************************************************************)
NextOverlap ==
    \/ \E breakpoint \in Breakpoints : BreakpointsChangedAgain(breakpoint)
    \/ \E i \in 1..MaxOverlapping : BreakpointsRefreshed(i)

SpecOverlap == InitBreakpoints /\ [][NextOverlap]_vars

\* C25: once every started refreshBreakpoints has completed, the widget's
\* list is the manager's answer to the refresh that was started last, which
\* is its answer for the breakpoints it holds now.
C25_LastStartedRefreshWins ==
    (bwInited /\ bwAwaiting = <<>> /\ bwLast.kind = "refresh")
        => bwBreakpoints = sort(ManagerAnswer(bwStore, bwSession))

\* A refresh that completes after every refresh started before it and before
\* any started after it leaves the answer of the last one.
RefreshesInOrder ==
    [][(Len(bwAwaiting) = 1 /\ bwAwaiting' = <<>> /\ bwAwaiting[1].store = bwStore)
        => bwBreakpoints' = sort(ManagerAnswer(bwStore, bwSession))]_vars

(***************************************************************************)
(* Breakpoint decorations: specification and properties                    *)
(***************************************************************************)
InitBreakpointDecorator ==
    /\ QoRegistryInit
    /\ QoServiceInit
    /\ ApIdle
    /\ BlIdle
    /\ DcIdle
    /\ PvIdle
    /\ TwIdle
    /\ AlIdle
    /\ DwIdle
    /\ MtInit
    /\ NjIdle
    /\ PmIdle
    /\ BwIdle
    /\ BdIdle

NextBreakpointDecorator ==
    \/ \E b \in StoredBreakpoints : StorageChanged(b)
    \/ \E e \in Editors : EditorToggled(e)
    \/ \E editor \in Editors \cup {NoEditor} : BreakpointDecorator_applyDecorations(editor)

SpecBreakpointDecorator == InitBreakpointDecorator /\ [][NextBreakpointDecorator]_vars

\* The stored source breakpoints of the file that the editor shows.
BreakpointsOfEditor(e) ==
    {b \in bdStorage : b.source # NoSource /\ b.source.uri = EditorUri[e]}

\* The decoration that the claim gives a breakpoint.
ExpectedDecoration(b) ==
    [range |-> [start |-> [line |-> b.line - 1, character |-> 0],
                end |-> [line |-> b.line - 1, character |-> 0]],
     options |-> IF b.created # NotCreated /\ b.created.verified
                 THEN [isWholeLine |-> FALSE, className |-> "theia-debug-active-breakpoint"]
                 ELSE [isWholeLine |-> FALSE, className |-> "theia-debug-inactive-breakpoint"]]

\* The list holds one decoration for each of the breakpoints and no other.
OnePerBreakpoint(decorations, breakpoints) ==
    /\ Len(decorations) = Cardinality(breakpoints)
    /\ \A b \in breakpoints :
         \E k \in 1..Len(decorations) : decorations[k] = ExpectedDecoration(b)

\* The editors that a call with the argument targets.
Targeted(editor) == IF editor = NoEditor THEN bdOpen ELSE {editor}

ApplyStep ==
    bdLast'.kind = "apply" =>
        \A e \in Editors :
            IF e \in Targeted(bdLast'.editor)
            THEN OnePerBreakpoint(bdDecorations'[e], BreakpointsOfEditor(e))
            ELSE bdDecorations'[e] = bdDecorations[e]

\* C11: applyDecorations replaces the decorations of each targeted editor by
\* one decoration per stored source breakpoint of the editor's URI, at the
\* 0-based line and column 0, active when the breakpoint has a verified
\* created record and inactive otherwise, and leaves other editors as they are.
C11_BreakpointDecorations == [][ApplyStep]_vars

\* A call without an editor has decorated the open editor of a.js with the
\* two breakpoints of the file, while every kind of breakpoint is stored and
\* a closed editor keeps its older decorations.
C11_Witness ==
    /\ bdLast = [kind |-> "apply", editor |-> NoEditor]
    /\ bdStorage = StoredBreakpoints
    /\ bdOpen = {"e1", "e2"}
    /\ Len(bdDecorations["e1"]) = 2
    /\ Len(bdDecorations["e2"]) = 1
    /\ Len(bdDecorations["e3"]) = 1

(***************************************************************************)
(* Active line decorations: specification and properties                   *)
(***************************************************************************)
InitActiveLine ==
    /\ QoRegistryInit
    /\ QoServiceInit
    /\ ApIdle
    /\ BlIdle
    /\ DcIdle
    /\ PvIdle
    /\ TwIdle
    /\ DwIdle
    /\ MtInit
    /\ NjIdle
    /\ PmIdle
    /\ BwIdle
    /\ BdIdle
    /\ AlInitial

NextActiveLine ==
    \/ ActiveLineDecorator_applyDecorations
    \/ \E i \in 1..MaxLookups : StacksResponded(i)
    \/ \E i \in 1..MaxLookups, widget \in LineEditors \cup {NoEditor} :
         EditorLookedUp(i, widget)
    \/ ActiveSessionChanged
    \/ \E t \in Threads : ThreadToggled(t)
    \/ \E e \in LineEditors : LineEditorToggled(e)

SpecActiveLine == InitActiveLine /\ [][NextActiveLine]_vars

\* The requests among the pending lookups, by stage.
RequestsAt(lookups, stage) == SelectSeq(lookups, LAMBDA r : r.stage = stage)

\* applyDecorations clears every open editor and, with an active session,
\* adds one stacks request with levels 1 per stopped thread, else nothing.
ApplyClearsAndRequests ==
    alLast'.kind = "apply" =>
        /\ \A e \in LineEditors :
             alDecorations'[e] = IF e \in alOpen THEN <<>> ELSE alDecorations[e]
        /\ Len(alPending') = Len(alPending)
              + (IF alActive = NoSession THEN 0 ELSE Cardinality(alStopped))
        /\ \A k \in (Len(alPending) + 1)..Len(alPending') :
             /\ alPending'[k].stage = "stacks"
             /\ alPending'[k].levels = 1
             /\ alPending'[k].threadId \in alStopped
        /\ \A t \in alStopped : alActive # NoSession =>
             \E k \in (Len(alPending) + 1)..Len(alPending') : alPending'[k].threadId = t

\* A stacks response sets no decoration, and leads to an editor lookup only
\* for a frame with a source.
StacksLeadToLookup ==
    alLast'.kind = "stacks" =>
        /\ alDecorations' = alDecorations
        /\ Len(RequestsAt(alPending', "editor")) = Len(RequestsAt(alPending, "editor"))
              + (IF alLast'.frame # NoFrame /\ alLast'.frame.source # NoSource
                 THEN 1 ELSE 0)

\* The whole-line range of a frame, 0-based.
ExpectedRange(frame) ==
    [start |-> [line |-> frame.line - 1,
                character |-> IF frame.endColumn = Absent THEN 0 ELSE frame.column - 1],
     end |-> [line |-> IF frame.endLine = Absent THEN frame.line - 1 ELSE frame.endLine - 1,
              character |-> IF frame.endColumn = Absent THEN 0 ELSE frame.endColumn - 1]]

\* An editor lookup decorates the open editor of the frame's URI with the
\* frame's range alone, and nothing when no such editor is open.
LookupDecorates ==
    alLast'.kind = "editor" =>
        LET frame == alLast'.frame
            showing == {e \in alOpen : EditorUri[e] = frame.source.uri}
        IN IF showing = {}
           THEN alDecorations' = alDecorations
           ELSE \E e \in showing :
                  /\ alDecorations'[e] =
                        <<[range |-> ExpectedRange(frame),
                           options |-> [isWholeLine |-> TRUE,
                                        className |-> "theia-debug-active-line"]]>>
                  /\ \A other \in LineEditors \ {e} :
                        alDecorations'[other] = alDecorations[other]

\* C12: applyDecorations clears the active-line decoration of every open
\* editor and stops there without an active session; otherwise it requests
\* the top frame (levels: 1) of each stopped thread, and a frame with a
\* source and an open editor sets that editor's decorations to the frame's
\* single 0-based whole-line range; other frames produce no decoration.
C12_ActiveLine == [][ApplyClearsAndRequests /\ StacksLeadToLookup /\ LookupDecorates]_vars

\* The frame of thread t2, with end line and end column, has been shown in
\* the editor of b.js.
C12_Witness ==
    /\ alLast.kind = "editor"
    /\ alLast.widget = "e2"
    /\ alDecorations["e2"] =
          <<[range |-> [start |-> [line |-> 4, character |-> 1],
                        end |-> [line |-> 5, character |-> 3]],
             options |-> ActiveLineDecoration]>>

(***************************************************************************)
(* Debug target widget: specification and properties                       *)
(***************************************************************************)
InitTarget ==
    /\ QoRegistryInit
    /\ QoServiceInit
    /\ ApIdle
    /\ BlIdle
    /\ DcIdle
    /\ PvIdle
    /\ DwIdle
    /\ MtInit
    /\ NjIdle
    /\ PmIdle
    /\ BwIdle
    /\ BdIdle
    /\ AlIdle
    /\ TwIdle

NextTarget ==
    \/ TargetAttached
    \/ TargetDetached
    \/ TargetUpdateRequested
    \/ TargetActivateRequested
    \/ \E w \in ChildWidgets : ChildProcessed(w)

SpecTarget == InitTarget /\ [][NextTarget]_vars

\* Each child is attached exactly when the target widget is, and no relay
\* has thrown.
ChildrenFollowTarget ==
    /\ \A w \in ChildWidgets : twChildAttached[w] = twAttached
    /\ ~twThrew

\* An update request reaches all four children, an activate request too.
RelayStep ==
    /\ twLast' = "update-request" => twUpdates' = ChildWidgets
    /\ twLast' = "activate-request" => twActivations' = ChildWidgets

\* C13: the target widget relays update and activate requests to all four
\* child widgets, and after any sequence of attach and detach each child is
\* attached exactly when the target widget is.
C13_ChildrenFollowTarget ==
    /\ []ChildrenFollowTarget
    /\ [][RelayStep]_vars

\* The target widget is attached again after a detach, with its four
\* children, while update requests are posted to all of them.
C13_Witness ==
    /\ twAttached
    /\ twLast = "after-attach"
    /\ \A w \in ChildWidgets : twChildAttached[w]
    /\ twUpdates = ChildWidgets
    /\ twActivations = {"threads"}

(***************************************************************************)
(* Earlier quick open service: specification and properties                *)
(***************************************************************************)
InitEarlier ==
    /\ handlers \in StartRegistries
    /\ defaultHandler = Undefined
    /\ toDispose = {HandlerDisposable(handlers[i]) : i \in 1..Len(handlers)}
    /\ regCall = NoCall
    /\ QoServiceInit
    /\ ApIdle
    /\ BlIdle
    /\ DcIdle
    /\ DwIdle
    /\ MtInit
    /\ NjIdle
    /\ PmIdle
    /\ BwIdle
    /\ BdIdle
    /\ AlIdle
    /\ TwIdle
    /\ PvIdle

NextEarlier ==
    \/ \E t \in Texts : EarlierOnType(t)
    \/ \E k \in 1..Len(pvItems), mode \in QuickOpenModes : EarlierItemRun(k, mode)
    \/ \E i \in 1..MaxPending, items \in ItemLists : EarlierModelResolved(i, items)

SpecEarlier == InitEarlier /\ [][NextEarlier]_vars

\* The acceptor got one item per handler of the registry, in registration
\* order, with the handler's prefix and description.
ListsAllProviders ==
    /\ Len(pvItems) = Len(pvRegistry)
    /\ \A k \in 1..Len(pvItems) :
         /\ pvItems[k].label = prefixOf(pvRegistry[k])
         /\ pvItems[k].description = descriptionOf(pvRegistry[k])

\* The text typed last starts with the prefix of no registered handler.
NoPrefixMatches == \A k \in 1..Len(handlers) : ~StartsWith(typed, prefixOf(handlers[k]))

\* The run of an item returned false; in OPEN mode it has queried the model
\* of the item's handler with the empty string, else it has done nothing.
RunQueriesInOpenMode ==
    /\ pvRun.returned = FALSE
    /\ IF pvRun.mode = "OPEN"
       THEN pending = Append(pvRun.pendingBefore,
                             [h |-> pvRegistry[pvRun.item], search |-> <<>>])
       ELSE pending = pvRun.pendingBefore

\* C14: the earlier service answers a text that matches no prefix with one
\* item per registered handler, in registration order, labelled with prefix
\* and description; an item run in OPEN mode queries its handler's model
\* with the empty string, whose items go to the acceptor, a run in another
\* mode does nothing, and run returns false.
C14_ListAllProviders ==
    /\ pvLast = "list" => NoPrefixMatches /\ ListsAllProviders /\ pvRegistry = handlers
    /\ pvLast = "dispatch" => ~NoPrefixMatches
    /\ pvLast = "run" => RunQueriesInOpenMode
    /\ pvLast = "resolved" => accepted = produced

\* The second of two listed providers has been run in OPEN mode.
C14_Witness ==
    /\ pvLast = "run"
    /\ Len(pvItems) = 2
    /\ pvRun.item = 2
    /\ pvRun.mode = "OPEN"
    /\ pending = <<[h |-> "cmd", search |-> <<>>]>>

(***************************************************************************)
(* HelpQuickOpenHandler: specification and properties                      *)
(***************************************************************************)
InitHelp ==
    /\ QoRegistryInit
    /\ QoServiceInit
    /\ ApIdle
    /\ BlIdle
    /\ DcIdle
    /\ DwIdle
    /\ MtInit
    /\ NjIdle
    /\ PmIdle
    /\ BwIdle
    /\ BdIdle
    /\ AlIdle
    /\ TwIdle
    /\ PvIdle

NextHelp ==
    \/ \E h \in HandlersWithHelp : RegisterHandler(h)
    \/ \E d \in toDispose : DisposeReturned(d)
    \/ \E t \in Texts : HelpOnType(t)
    \/ \E k \in 1..Len(pvItems), mode \in QuickOpenModes : HelpItemRun(k, mode)

SpecHelp == InitHelp /\ [][NextHelp]_vars

\* The handlers of a registry other than the help handler, in registration
\* order.
OtherHandlers(registered) == SelectSeq(registered, LAMBDA h : h # "help")

\* An onType of the help model lists the handlers that are registered at
\* that moment, without the help handler.
HelpListStep ==
    (pvVars' # pvVars /\ pvLast' = "help") =>
        LET expected == OtherHandlers(handlers')
        IN /\ Len(pvItems') = Len(expected)
           /\ \A k \in 1..Len(expected) :
                /\ pvItems'[k].label = prefixOf(expected[k])
                /\ pvItems'[k].description = descriptionOf(expected[k])

\* The run of a help item returned false; in OPEN mode it has called show
\* with the prefix of the item's handler, else it has called nothing.
HelpRunShowsInOpenMode ==
    pvLast = "helpRun" =>
        /\ pvRun.returned = FALSE
        /\ IF pvRun.mode = "OPEN"
           THEN shown = prefixOf(OtherHandlers(pvRegistry)[pvRun.item])
           ELSE shown = pvRun.shownBefore

\* C15: the help model's onType lists, for any search text, one item per
\* handler registered at that moment except the help handler, in
\* registration order; an item run in OPEN mode calls show with its
\* handler's prefix, a run in another mode calls nothing, and run returns
\* false.
C15_HelpListsHandlers == []HelpRunShowsInOpenMode /\ [][HelpListStep]_vars

\* The help handler and two others were registered, one of them was disposed
\* after a first listing, and the item of the remaining one has been run in
\* OPEN mode.
C15_Witness ==
    /\ pvLast = "helpRun"
    /\ pvRegistry = <<"help", "deep">>
    /\ HandlerDisposable("cmd") \in toDispose
    /\ pvRun.mode = "OPEN"
    /\ shown = <<">", ">">>
    /\ pvRun.shownBefore = <<">">>

(***************************************************************************)
(* Quick open: the prefix change of the service                            *)
(***************************************************************************)
\* The prefix of the handler that a text matches, '' when none matches.
MatchedPrefix(text) ==
    IF Matching(text) = {} THEN <<>> ELSE prefixOf(FirstMatching(text))

\* The call reopened the widget with the text and did nothing else.
Reopened ==
    /\ shown' = typed'
    /\ pending' = pending
    /\ UNCHANGED <<produced, accepted, typeError>>

\* The call queried exactly one model and left the widget alone.
DispatchedToOne ==
    /\ \E q \in [h : Handlers, search : Texts] : pending' = Append(pending, q)
    /\ UNCHANGED <<currentPrefix, shown, produced, accepted, typeError>>

\* An onType call records the matched prefix; it reopens when that prefix
\* differs from the current one and dispatches to one model when it does not;
\* the same text typed again does not reopen.
PrefixChangeStep ==
    typed' # NoText =>
        /\ currentPrefix' = MatchedPrefix(typed')
        /\ IF MatchedPrefix(typed') # currentPrefix THEN Reopened ELSE DispatchedToOne
        /\ typed = typed' => MatchedPrefix(typed') = currentPrefix

\* C16: an onType call whose matched prefix differs from the current prefix
\* records the new prefix, reopens the widget with the text and neither
\* queries a model nor calls the acceptor; every onType call does exactly
\* one of reopen and dispatch to one model; the same text typed twice does
\* not reopen twice, and after an onType call the current prefix is the
\* prefix that the text matched.
C16_PrefixChange == [][PrefixChangeStep]_vars

\* The same step for the calls that have a model to dispatch to.
PrefixChangeStepWithModel ==
    (Matching(typed') # {} \/ defaultHandler # Undefined) => PrefixChangeStep

\* Apart from the calls that find neither a handler nor a default handler,
\* every onType call reopens or dispatches.
PrefixChangeWithModel == [][PrefixChangeStepWithModel]_vars

(***************************************************************************)
(* Tab close protocol: specifications and properties                       *)
(***************************************************************************)
InitClose ==
    /\ QoRegistryInit
    /\ QoServiceInit
    /\ ApIdle
    /\ BlIdle
    /\ DwInitial
    /\ MtInit
    /\ NjIdle
    /\ PmIdle
    /\ BwIdle
    /\ BdIdle
    /\ AlIdle
    /\ TwIdle
    /\ PvIdle
    /\ DcIdle

NextClose ==
    \/ DwInit
    \/ \E sid \in Sessions : SessionCreated(sid)
    \/ \E sid \in Sessions : SessionDestroyed(sid)
    \/ PanelAttached
    \/ PanelDetached
    \/ \E sid \in Sessions : TabSelected(sid)
    \/ \E sid \in Sessions : TabCloseRequested(sid)

SpecClose == InitClose /\ [][NextClose]_vars

\* The manager eventually emits the destroy event of each session on which
\* disconnect() was called.
SpecCloseFair ==
    SpecClose /\ \A sid \in Sessions : WF_vars(DestroyDisconnected(sid))

\* A close request leaves the tabs alone and disconnects the tab's session if
\* the manager knows it; a tab goes only on a destroy event.
CloseStep ==
    /\ dcVars' # dcVars =>
         /\ dwVars' = dwVars
         /\ \E sid \in Sessions :
              /\ TitlesOf(dwTabs, sid) # {}
              /\ dcCloseRequested' = dcCloseRequested \cup {sid}
              /\ dcDisconnected' =
                   dcDisconnected \cup (IF sid \in dwSessions THEN {sid} ELSE {})
    /\ Len(dwTabs') < Len(dwTabs) =>
         (dwSessions' # dwSessions /\ dwSessions' \subseteq dwSessions)

\* The close protocol without its last step: close requests only disconnect.
CloseOnlyDisconnects == [][CloseStep]_vars

\* The tab of a session that the manager no longer holds stays in every
\* step, whatever happens next.
StaleTabStays ==
    [][\A sid \in Sessions :
         (sid \notin dwSessions /\ TitlesOf(dwTabs, sid) # {})
             => TitlesOf(dwTabs', sid) # {}]_vars

\* C20: every tab whose close was requested is eventually removed, given
\* that the manager eventually emits the destroy event of each disconnected
\* session.
C20_ClosedTabsAreRemoved ==
    \A sid \in Sessions : (sid \in dcCloseRequested) ~> (TitlesOf(dwTabs, sid) = {})

(***************************************************************************)
(* Breakpoints view listeners: specification and properties                *)
(***************************************************************************)
InitListeners ==
    /\ QoRegistryInit
    /\ QoServiceInit
    /\ ApIdle
    /\ DwIdle
    /\ MtInit
    /\ NjIdle
    /\ PmIdle
    /\ BwInitial
    /\ BdIdle
    /\ AlIdle
    /\ TwIdle
    /\ PvIdle
    /\ DcIdle
    /\ BlInitial

NextListeners ==
    \/ BreakpointsWidgetAttached
    \/ BreakpointsWidgetDetached
    \/ \E breakpoint \in Breakpoints : ManagerFired(breakpoint)
    \/ SessionFired
    \/ DialogOpen

SpecListeners == InitListeners /\ [][NextListeners]_vars

\* An event that reached the attached widget made it refresh.
AttachedWidgetRefreshes ==
    (blLast.attached /\ blLast.event \in {"onDidChangeBreakpoints", "configurationDone"})
        => blLast.refreshes >= 1

\* After a detach the widget has no listener on the manager or the session.
NoListenerAfterDetach ==
    ~blAttached => (blLast.event = "detach" =>
                        blListeners.manager = {} /\ blListeners.session = {})

\* C24: while the widget is attached, every onDidChangeBreakpoints event and
\* every 'configurationDone' of its session leads to a refreshBreakpoints
\* call, also after a detach and a new attach and also for the widget that
\* BreakpointsDialog builds with `new`; after a detach no listener of the
\* widget is left on the manager or the session.
C24_ListenersAcrossLifecycle == AttachedWidgetRefreshes /\ NoListenerAfterDetach

\* The events that reach a container-built widget before its first detach.
RefreshesUntilFirstDetach ==
    (bwInited /\ blListeners.onDetach # {}) => AttachedWidgetRefreshes

(***************************************************************************)
(* Editor decorations: late responses of an earlier applyDecorations       *)
(***************************************************************************)

\* All lookups have completed after at least one applyDecorations call.
LookupsCompleted == apApplied.called /\ alPending = <<>>

\* The decoration of editor e is the top frame of one of the threads.
ShowsTopFrameOf(e, threads) ==
    \E t \in threads :
        /\ alTop[t] # NoFrame
        /\ alTop[t].source # NoSource
        /\ toUri(alTop[t].source) = EditorUri[e]
        /\ alDecorations[e] = doShow(alTop[t])

\* The editors the most recent call cleared and that are still open show
\* nothing, or the top frame of a thread that call asked the stacks of.
OnlyFramesOfLastCall ==
    \A e \in apApplied.open \cap alOpen :
        alDecorations[e] = <<>> \/ ShowsTopFrameOf(e, apApplied.threads)

\* C26: once every pending lookup has completed after the most recent
\* applyDecorations call, an editor that call cleared shows only the top
\* frame of a stopped thread of the session active at that call, and so
\* nothing when that call found no active session or no stopped thread,
\* even when responses requested by an earlier call arrive afterwards.
C26_OnlyLastCallDecorates == LookupsCompleted => OnlyFramesOfLastCall

\* When no earlier lookup was pending at the most recent call, only the top
\* frames of the threads of that call are shown once its lookups completed.
LoneCallDecorates ==
    (LookupsCompleted /\ apApplied.alone) => OnlyFramesOfLastCall

(***************************************************************************)
(* Quick open: typing without a default handler                            *)
(***************************************************************************)

\* C27: after application start without a registerDefaultHandler call, no
\* model.onType call throws, whatever text is typed; in particular not the
\* second of two calls with a text that matches no handler prefix.
C27_NoErrorWithoutDefault == defaultHandler = Undefined => ~typeError

\* An onType call throws only without a default handler and without a
\* handler of the empty prefix, which every text matches.
ErrorOnlyInFallback ==
    typeError => /\ defaultHandler = Undefined
                 /\ \A i \in 1..Len(handlers) : prefixOf(handlers[i]) # <<>>

====
